---------------------------- MODULE Spec2Model ----------------------------
(***************************************************************************)
(* A model of fdt-rs: the flattened-device-tree header decoder             *)
(* (base/tree.rs), the structure-block tokenizer (base/parse.rs), the      *)
(* streaming iterators (base/iters.rs, base/node.rs, base/prop.rs), the    *)
(* index builder (index/tree.rs) and the indexed iterators                 *)
(* (index/iters.rs).                                                       *)
(*                                                                         *)
(* The blob is a sequence of bytes.  Offsets are 0-based as in the source: *)
(* the byte at offset o of b is b[o + 1].                                  *)
(*                                                                         *)
(* TLC's integers are 32-bit signed.  A u32 is therefore held as its bit   *)
(* pattern read as an i32: a u32 whose top bit is set is the value minus   *)
(* 2^32.  Equality and alignment (% 4) are those of the u32; widening such *)
(* a value to usize gives a number above every length of the model, which  *)
(* is what UsizeLt and UsizeGt state.                                      *)
(***************************************************************************)
EXTENDS Integers, Sequences, FiniteSets, TLC

VARIABLES
    buf,        \* the byte buffer handed to the library
    bufAddr,    \* the start address of buf modulo 4
    debug,      \* TRUE iff the build keeps debug_assert! (debug profile)
    openRes,    \* result of DevTree::new(buf); "NotCalled" before the call
    hdrQ,       \* last header query: [op, arg, res]
    it,         \* the streaming DevTreeIter of items()
    itRes,      \* what its last next() returned: "Start","Node","Prop","None","Err","Panic"
    out,        \* the items it has yielded so far: <<[kind, name]>>
    q,          \* the search last made from the node just yielded, and its answer
    bld,        \* DevTreeIndex::new: its result, the root it keeps, the buffer size
    arena,      \* the records written into the index buffer, in address order
    ix,         \* the indexed DevTreeIndexIter of items()
    ixRes,      \* what its last next() returned
    ixOut,      \* the items the indexed iterator has yielded so far
    gen,        \* how buf was generated: [n, d, plan, nops] (n = 0: not from a tree)
    toks,       \* the tokens of buf's structure block when it was made from a token list
    rsvGen,     \* the memory reservation map buf was made with: [ents, place, slack]
    rsv,        \* the DevTreeReserveEntryIter of reserved_entries(): [state, offset, out]
    pval,       \* the value of the property that is queried
    pq,         \* the last query on the property value: [op, arg, res, val]
    tokGen,     \* the single token buf was made of: [kind, n, shape, at]
    tok,        \* what next_devtree_token returned for it, and the cursor it left
    dtb         \* the DTIBuilder of a build taken token by token: [state, B, off, ptrs]

vars == <<buf, bufAddr, debug, openRes, hdrQ, it, itRes, out, q, bld, arena, ix, ixRes, ixOut, gen, toks, rsvGen, rsv, pval, pq, tokGen, tok, dtb>>

-----------------------------------------------------------------------------
(* Bounds of the model *)

\* nodes of a generated tree
MaxNodes == 4
\* byte length of the header-only buffers given to DevTree::new
MaxHdrLen == 44

-----------------------------------------------------------------------------
(* Program constants *)

\* 0xd00dfeed as a 32-bit pattern (3490578157 - 2^32)
FDT_MAGIC == -804389139
MAX_NODE_NAME_LEN == 31
TOK_BEGIN_NODE == 1
TOK_END_NODE == 2
TOK_PROP == 3
TOK_NOP == 4
TOK_END == 9
\* size_of::<u32>()
U32_SIZE == 4
\* size_of::<fdt_prop_header>()
PROP_HEADER_SIZE == 8
\* offset_of!(fdt_header, f)
OFF_magic == 0
OFF_totalsize == 4
OFF_off_dt_struct == 8
OFF_off_dt_strings == 12
OFF_off_mem_rsvmap == 16

\* the property name "compatible" the compatible-match looks for
CompatibleName == <<99, 111, 109, 112, 97, 116, 105, 98, 108, 101>>

-----------------------------------------------------------------------------
(* Bytes *)

At(b, off) == b[off + 1]
\* b[from..to) as in Rust's slice indexing
Slice(b, from, to) == SubSeq(b, from + 1, to)

Ok(v) == [ok |-> TRUE, val |-> v, err |-> "None"]
Err(e) == [ok |-> FALSE, val |-> 0, err |-> e]

BE32(v) == << (v \div 16777216) % 256, (v \div 65536) % 256, (v \div 256) % 256, v % 256 >>

RECURSIVE Zeros(_)
Zeros(n) == IF n <= 0 THEN << >> ELSE <<0>> \o Zeros(n - 1)

\* bytes padded with zeros to a multiple of 4
Pad4(bytes) == bytes \o Zeros((4 - (Len(bytes) % 4)) % 4)

\* the u32 with big-endian bytes b0 b1 b2 b3
Word(b0, b1, b2, b3) ==
    (IF b0 >= 128 THEN b0 - 256 ELSE b0) * 16777216 + b1 * 65536 + b2 * 256 + b3

\* (v as usize) < n  and  (v as usize) > n, for a u32 v and a length n
UsizeLt(v, n) == v >= 0 /\ v < n
UsizeGt(v, n) == v < 0 \/ v > n

\* be_read!(buf, u32, pos): bounds-checked unaligned big-endian read
read_be_u32(b, pos) ==
    IF pos + U32_SIZE > Len(b) THEN Err("UnexpectedEndOfInput")
    ELSE Ok(Word(At(b, pos), At(b, pos + 1), At(b, pos + 2), At(b, pos + 3)))

\* unchecked_be_read!(buf, u32, pos): the aligned read of the tokenizer
unsafe_read_be_u32(b, pos) ==
    IF pos + U32_SIZE > Len(b) THEN Err("InvalidOffset")
    ELSE Ok(Word(At(b, pos), At(b, pos + 1), At(b, pos + 2), At(b, pos + 3)))

Min(a, b) == IF a < b THEN a ELSE b

\* the first index i in [pos, end) with b[i] = 0, or -1
RECURSIVE FindNul(_, _, _)
FindNul(b, pos, end) ==
    IF pos >= end THEN -1
    ELSE IF At(b, pos) = 0 THEN pos
    ELSE FindNul(b, pos + 1, end)

\* the bytes [pos, nul) when a NUL was found at nul, else the read error
bstring0(b, pos, nul) ==
    IF nul < 0 THEN Err("UnexpectedEndOfInput")
    ELSE [ok |-> TRUE, val |-> Slice(b, pos, nul), err |-> "None"]

\* read_bstring0: the bytes from pos up to the first NUL
read_bstring0(b, pos) == bstring0(b, pos, FindNul(b, pos, Len(b)))

\* nread_bstring0: as read_bstring0, the scan bounded by min(len + pos, b.len())
nread_bstring0(b, pos, len) == bstring0(b, pos, FindNul(b, pos, Min(len + pos, Len(b))))

-----------------------------------------------------------------------------
(* Header decoder: base/tree.rs *)

is_aligned(offset) == offset % U32_SIZE = 0

\* verify_offset_aligned::<u32>
verify_offset_aligned(offset) ==
    IF is_aligned(offset) THEN Ok(offset) ELSE Err("ParseError")

\* From<SliceReadError> for DevTreeError: every slice read error is ParseError
verify_magic(b) ==
    LET m == read_be_u32(b, OFF_magic)
    IN  IF ~m.ok THEN "ParseError"
        ELSE IF m.val # FDT_MAGIC THEN "InvalidMagicNumber"
        ELSE "Ok"

\* faulty variant: the magic is verified before the alignment of the buffer
read_totalsize_magic_first(b, addr) ==
    IF verify_magic(b) # "Ok" THEN Err(verify_magic(b))
    ELSE IF ~verify_offset_aligned(addr).ok THEN Err("InvalidParameter")
    ELSE LET t == read_be_u32(b, OFF_totalsize)
         IN  IF ~t.ok THEN Err("ParseError") ELSE Ok(t.val)

read_totalsize(b, addr) ==
    IF ~verify_offset_aligned(addr).ok THEN Err("InvalidParameter")
    ELSE IF verify_magic(b) # "Ok" THEN Err(verify_magic(b))
    ELSE LET t == read_be_u32(b, OFF_totalsize)
         IN  IF ~t.ok THEN Err("ParseError") ELSE Ok(t.val)

\* the header accessors unwrap() the read: a panic when the field is not in buf
totalsize(b) == read_be_u32(b, OFF_totalsize)
off_mem_rsvmap(b) == read_be_u32(b, OFF_off_mem_rsvmap)
off_dt_struct(b) == read_be_u32(b, OFF_off_dt_struct)
off_dt_strings(b) == read_be_u32(b, OFF_off_dt_strings)

from_safe_slice(b) ==
    IF ~off_mem_rsvmap(b).ok THEN "Panic"
    ELSE IF ~verify_offset_aligned(off_mem_rsvmap(b).val).ok THEN "ParseError"
    ELSE IF ~off_dt_struct(b).ok THEN "Panic"
    ELSE IF ~verify_offset_aligned(off_dt_struct(b).val).ok THEN "ParseError"
    ELSE "Ok"

\* faulty variant: a buffer of exactly totalsize bytes is rejected too
DevTree_new_rejects_exact(b, addr) ==
    LET ts == read_totalsize(b, addr)
    IN  IF ~ts.ok THEN ts.err
        ELSE IF UsizeLt(ts.val, Len(b) + 1) THEN "ParseError"
        ELSE from_safe_slice(b)

DevTree_new(b, addr) ==
    LET ts == read_totalsize(b, addr)
    IN  IF ~ts.ok THEN ts.err
        ELSE IF UsizeLt(ts.val, Len(b)) THEN "ParseError"
        ELSE from_safe_slice(b)

-----------------------------------------------------------------------------
(* Tokenizer: base/parse.rs *)

\* ptr.align_offset(4) of buf.as_ptr().add(off), buf starting 4-byte aligned
align_offset(off) == (U32_SIZE - (off % U32_SIZE)) % U32_SIZE

\* What next_devtree_token returns and where it leaves *off.
\*   kind: "BeginNode", "Prop", "EndNode", "Nop" for Ok(Some(tok)),
\*         "None" for Ok(None), "Err" for Err(ParseError), "Panic"
Tok(kind, off, name, pstart, plen, nameoff) ==
    [kind |-> kind, off |-> off, name |-> name, pstart |-> pstart, plen |-> plen,
     nameoff |-> nameoff]

TokNoPayload(kind, off) == Tok(kind, off, << >>, 0, 0, 0)

\* off moved up to the next multiple of 4
AlignUp(off) == off + align_offset(off)

\* the BeginNode arm once the name is read: the cursor moves past the name,
\* its NUL and the padding
BeginNodeTok(off, name) ==
    IF ~name.ok THEN TokNoPayload("Err", off)
    ELSE Tok("BeginNode", AlignUp(off + Len(name.val) + 1), name.val, 0, 0, 0)

BeginNodeArm(b, off) == BeginNodeTok(off, nread_bstring0(b, off, MAX_NODE_NAME_LEN - 1))

\* the Prop arm once the header is read: the cursor is past the header (at
\* off) when the value does not fit, past the value and its padding otherwise
PropTok(b, off, prop_len, nameoff) ==
    \* buf.get(off..off + prop_len)
    IF prop_len < 0 \/ off + prop_len > Len(b) THEN TokNoPayload("Err", off)
    ELSE IF UsizeGt(nameoff, Len(b)) THEN TokNoPayload("Err", AlignUp(off + prop_len))
    ELSE Tok("Prop", AlignUp(off + prop_len), << >>, off, prop_len, nameoff)

PropArm(b, off) ==
    \* buf.get(off..off + size_of::<fdt_prop_header>())
    IF off + PROP_HEADER_SIZE > Len(b) THEN TokNoPayload("Err", off)
    ELSE PropTok(b, off + PROP_HEADER_SIZE, read_be_u32(b, off).val,
                 read_be_u32(b, off + U32_SIZE).val)

\* the match on the token word w read at off
TokenOf(b, off, w) ==
    IF ~w.ok THEN TokNoPayload("Err", off)
    ELSE CASE w.val = TOK_BEGIN_NODE -> BeginNodeArm(b, off + U32_SIZE)
           [] w.val = TOK_PROP -> PropArm(b, off + U32_SIZE)
           [] w.val = TOK_END_NODE -> TokNoPayload("EndNode", off + U32_SIZE)
           [] w.val = TOK_NOP -> TokNoPayload("Nop", off + U32_SIZE)
           [] w.val = TOK_END -> TokNoPayload("None", off + U32_SIZE)
           [] OTHER -> TokNoPayload("Err", off + U32_SIZE)

next_devtree_token(b, off, dbg) ==
    \* debug_assert!(buf.len() > *off + size_of::<u32>())
    IF dbg /\ ~(Len(b) > off + U32_SIZE) THEN TokNoPayload("Panic", off)
    ELSE TokenOf(b, off, unsafe_read_be_u32(b, off))

-----------------------------------------------------------------------------
(* Streaming iterator: base/iters.rs *)

\* DevTreeIter: offset, depth, current_prop_parent_off (0 for None)
Iter(offset, depth, ppo) == [offset |-> offset, depth |-> depth, ppo |-> ppo]

\* DevTreeIter::new
DevTreeIter_new(b) == Iter(off_dt_struct(b).val, 0 - 1, 0)

\* What a step of an iterator returns: res is "Node", "Prop" (Ok(Some(item))),
\* "None" (Ok(None)), "Err" (Err(ParseError)) or "Panic"; iter is the iterator
\* after the call.  A Node item carries name and its parse_iter (= iter after
\* the step); a Prop item carries its parent_iter, its value (pstart, plen) and
\* its name offset.
Step(res, iter, depth, name, hiter, pstart, plen, nameoff) ==
    [res |-> res, iter |-> iter, depth |-> depth, name |-> name, hiter |-> hiter,
     pstart |-> pstart, plen |-> plen, nameoff |-> nameoff]

StepNoItem(res, iter) == Step(res, iter, iter.depth, << >>, iter, 0, 0, 0)

\* faulty variant: the iterator stays where it is
current_node_itr_in_place(i) == Iter(i.offset, i.depth, i.ppo)

\* current_node_itr(): the iterator that re-yields the owning node
current_node_itr(i) == Iter(i.ppo, i.depth, i.ppo)

\* the items of next_item_with_depth, iter being the iterator that yields them
NodeStep(iter, name) == Step("Node", iter, iter.depth, name, iter, 0, 0, 0)
PropStep(iter, t) ==
    Step("Prop", iter, iter.depth, << >>, current_node_itr(iter), t.pstart, t.plen,
         t.nameoff)

RECURSIVE next_item_with_depth(_, _, _)

\* the match of next_item_with_depth on the token t read at i.offset
ItemOf(b, i, dbg, t) ==
    CASE t.kind = "BeginNode" -> NodeStep(Iter(t.off, i.depth + 1, i.offset), t.name)
      [] t.kind = "Prop" ->
           IF i.ppo = 0 THEN StepNoItem("Err", Iter(t.off, i.depth, i.ppo))
           ELSE PropStep(Iter(t.off, i.depth, i.ppo), t)
      [] t.kind = "EndNode" -> next_item_with_depth(b, Iter(t.off, i.depth - 1, 0), dbg)
      [] t.kind = "Nop" -> next_item_with_depth(b, Iter(t.off, i.depth, i.ppo), dbg)
      [] OTHER -> StepNoItem(t.kind, Iter(t.off, i.depth, i.ppo))

next_item_with_depth(b, i, dbg) == ItemOf(b, i, dbg, next_devtree_token(b, i.offset, dbg))

\* DevTreeIter::next / next_item
next_item(b, i, dbg) == next_item_with_depth(b, i, dbg)

RECURSIVE next_node(_, _, _)

\* the match of next_node on the result r of next()
NodeOrSkip(b, dbg, r) == IF r.res = "Prop" THEN next_node(b, r.iter, dbg) ELSE r

\* DevTreeIter::next_node: skip properties up to the next node
next_node(b, i, dbg) == NodeOrSkip(b, dbg, next_item(b, i, dbg))

\* Ok(item.prop()): None for a node
PropOrNone(r) == IF r.res = "Node" THEN StepNoItem("None", r.iter) ELSE r

\* faulty variant: the property search gives up at the first node it meets
next_prop_stops_at_node(b, i, dbg) == PropOrNone(next_item(b, i, dbg))

RECURSIVE next_prop(_, _, _)

\* the match of next_prop on the result r of next()
PropOrSkip(b, dbg, r) == IF r.res = "Node" THEN next_prop(b, r.iter, dbg) ELSE r

\* DevTreeIter::next_prop: skip nodes up to the next property
next_prop(b, i, dbg) == PropOrSkip(b, dbg, next_item(b, i, dbg))

\* faulty variant: the run goes on through the nodes that follow
next_node_prop_through_nodes(b, i, dbg) == next_prop(b, i, dbg)

\* DevTreeIter::next_node_prop: Ok(item.prop())
next_node_prop(b, i, dbg) == PropOrNone(next_item(b, i, dbg))

-----------------------------------------------------------------------------
(* Strings: core::str::from_utf8 and the property reader (common/prop.rs) *)

IsCont(x) == x >= 128 /\ x <= 191

\* core::str::from_utf8 accepts exactly the well-formed UTF-8 byte sequences
RECURSIVE Utf8Valid(_)
Utf8Valid(bs) ==
    IF bs = << >> THEN TRUE
    ELSE LET c == bs[1]
             n == Len(bs)
         IN  CASE c <= 127 -> Utf8Valid(Tail(bs))
               [] c >= 194 /\ c <= 223 ->
                    n >= 2 /\ IsCont(bs[2]) /\ Utf8Valid(SubSeq(bs, 3, n))
               [] c >= 224 /\ c <= 239 ->
                    /\ n >= 3 /\ IsCont(bs[2]) /\ IsCont(bs[3])
                    /\ (c = 224 => bs[2] >= 160)
                    /\ (c = 237 => bs[2] <= 159)
                    /\ Utf8Valid(SubSeq(bs, 4, n))
               [] c >= 240 /\ c <= 244 ->
                    /\ n >= 4 /\ IsCont(bs[2]) /\ IsCont(bs[3]) /\ IsCont(bs[4])
                    /\ (c = 240 => bs[2] >= 144)
                    /\ (c = 244 => bs[2] <= 143)
                    /\ Utf8Valid(SubSeq(bs, 5, n))
               [] OTHER -> FALSE

StrOk(bytes) == [ok |-> TRUE, val |-> bytes, err |-> "None"]
StrErr(e) == [ok |-> FALSE, val |-> << >>, err |-> e]

from_utf8(bytes) == IF Utf8Valid(bytes) THEN StrOk(bytes) ELSE StrErr("StrError")

\* a NUL-terminated string read as UTF-8: the read error is a ParseError
StrOf(r) == IF ~r.ok THEN StrErr("ParseError") ELSE from_utf8(r.val)

\* PropTraitWrap::get_prop_str: the property's name in the strings block
get_prop_str(b, nameoff) == StrOf(read_bstring0(b, off_dt_strings(b).val + nameoff))

\* the property's value bytes
propbuf(b, pstart, plen) == Slice(b, pstart, pstart + plen)

\* PropTraitWrap::get_string(offset, true): the NUL-terminated string at offset
get_string(pb, offset) == StrOf(read_bstring0(pb, offset))

\* PropReader::get_str (str() of the streaming search): the first string
get_str(pb) == get_string(pb, 0)

\* DevTreeProp::node: parent_iter.clone().next_node(), unwrapped unchecked
DevTreeProp_node(b, parent_iter, dbg) == next_node(b, parent_iter, dbg)

\* the node of property r, the searching iterator being left at iter
FoundNode(node, iter) == [node EXCEPT !.iter = iter]

RECURSIVE compatible_loop(_, _, _, _)

\* prop.name()? == "compatible" && prop.str()? == string, for the property r
\* with name `name` and first string `str`
PropMatch(b, string, dbg, r, name, str) ==
    IF ~name.ok THEN StepNoItem("Err", r.iter)
    ELSE IF name.val # CompatibleName THEN compatible_loop(b, r.iter, string, dbg)
    ELSE IF ~str.ok THEN StepNoItem("Err", r.iter)
    ELSE IF str.val = string THEN FoundNode(DevTreeProp_node(b, r.hiter, dbg), r.iter)
    ELSE compatible_loop(b, r.iter, string, dbg)

\* the match of the loop on the result r of next_prop()
CompatibleMatch(b, string, dbg, r) ==
    IF r.res # "Prop" THEN r
    ELSE PropMatch(b, string, dbg, r, get_prop_str(b, r.nameoff),
                   get_str(propbuf(b, r.pstart, r.plen)))

\* the loop of next_compatible_node over the remaining properties
compatible_loop(b, i, string, dbg) == CompatibleMatch(b, string, dbg, next_prop(b, i, dbg))

\* the closure of next_compatible_node: Result::and_then runs it after
\* next_node() returned Ok(Some(_)) and after it returned Ok(None)
AndThenLoop(b, string, dbg, n) ==
    IF n.res \in {"Err", "Panic"} THEN n ELSE compatible_loop(b, n.iter, string, dbg)

\* DevTreeIter::next_compatible_node
next_compatible_node(b, i, string, dbg) == AndThenLoop(b, string, dbg, next_node(b, i, dbg))

\* DevTreeNode::find_next_compatible_node
find_next_compatible_node(b, parse_iter, string, dbg) ==
    next_compatible_node(b, parse_iter, string, dbg)

-----------------------------------------------------------------------------
(* Depth-filtered iterators and the sibling iterators: base/iters.rs *)

\* what a filtered iterator returns: the step r (r.iter is the inner DevTreeIter
\* after the call) and its ended flag
Filt(r, ended) == [r |-> r, ended |-> ended]

RECURSIVE DevTreeDepthIter_next(_, _, _, _, _)

\* the match of DevTreeDepthIter::next on the result r of next_item_with_depth()
DepthMatch(b, target, dbg, r) ==
    IF r.res \in {"Node", "Prop"}
    THEN IF r.depth = target THEN Filt(r, FALSE)
         ELSE IF r.depth < target /\ r.res = "Node"
              THEN Filt(StepNoItem("None", r.iter), TRUE)
         ELSE DevTreeDepthIter_next(b, r.iter, target, FALSE, dbg)
    ELSE Filt(r, FALSE)

\* DevTreeDepthIter::next: items at exactly depth `target`
DevTreeDepthIter_next(b, i, target, ended, dbg) ==
    IF ended THEN Filt(StepNoItem("None", i), TRUE)
    ELSE DepthMatch(b, target, dbg, next_item_with_depth(b, i, dbg))

RECURSIVE DevTreeMinDepthIter_next(_, _, _, _, _)

\* the match of DevTreeMinDepthIter::next on the result r of next_item_with_depth()
MinDepthMatch(b, min_depth, dbg, r) ==
    IF r.res \in {"Node", "Prop"}
    THEN IF r.depth >= min_depth THEN Filt(r, FALSE)
         ELSE IF r.res = "Node" THEN Filt(StepNoItem("None", r.iter), TRUE)
         ELSE DevTreeMinDepthIter_next(b, r.iter, min_depth, FALSE, dbg)
    ELSE Filt(r, FALSE)

\* DevTreeMinDepthIter::next: items at depth >= min_depth
DevTreeMinDepthIter_next(b, i, min_depth, ended, dbg) ==
    IF ended THEN Filt(StepNoItem("None", i), TRUE)
    ELSE MinDepthMatch(b, min_depth, dbg, next_item_with_depth(b, i, dbg))

\* the iterator a DevTreeSkipCurrentIter wraps: "Depth" or "MinDepth"
Inner_next(kind, b, i, target, ended, dbg) ==
    IF kind = "Depth" THEN DevTreeDepthIter_next(b, i, target, ended, dbg)
    ELSE DevTreeMinDepthIter_next(b, i, target, ended, dbg)

RECURSIVE SkipCurrent_loop(_, _, _, _, _, _)

\* one turn of the loop, x being what the inner iterator (at i, ended) returned:
\* only a node at target_depth leaves the loop.  When the call left the inner
\* iterator as it found it without such a node, every later call does the
\* same: the loop never returns ("Diverge").
SkipMatch(kind, b, i, target, ended, dbg, x) ==
    IF x.r.res = "Node" /\ x.r.depth = target THEN x
    ELSE IF x.r.res = "Panic" THEN x
    ELSE IF x.r.iter = i /\ x.ended = ended THEN Filt(StepNoItem("Diverge", i), ended)
    ELSE SkipCurrent_loop(kind, b, x.r.iter, target, x.ended, dbg)

\* DevTreeSkipCurrentIter::next while !done
SkipCurrent_loop(kind, b, i, target, ended, dbg) ==
    SkipMatch(kind, b, i, target, ended, dbg, Inner_next(kind, b, i, target, ended, dbg))

\* DevTreeSiblingsIter::new(parse_iter) followed by its first next()
siblings_first(b, parse_iter, dbg) ==
    SkipCurrent_loop("Depth", b, parse_iter, parse_iter.depth, FALSE, dbg)

\* DevTreeSiblingsAndDescendantsIter::new(parse_iter) followed by its first next()
siblings_and_descendants_first(b, parse_iter, dbg) ==
    SkipCurrent_loop("MinDepth", b, parse_iter, parse_iter.depth, FALSE, dbg)

\* DevTreeNode::next_sibling: sibling_nodes().next(); the node filter passes
\* the first item of siblings() on, which is a node whenever there is one
next_sibling(b, parse_iter, dbg) == siblings_first(b, parse_iter, dbg).r

\* an iterator over part of the tree: a DevTreeDepthIter ("Depth") or a
\* DevTreeMinDepthIter ("MinDepth") on iter, inside a DevTreeSkipCurrentIter
\* that is not done yet when skip
FilterIter(kind, skip, iter, target) ==
    [kind |-> kind, skip |-> skip, iter |-> iter, target |-> target, ended |-> FALSE]

\* faulty variant: the subtree is taken to start at the node's own depth
DevTreeDescendantsIter_new_own_depth(iter) == FilterIter("MinDepth", FALSE, iter, iter.depth)

\* DevTreeDescendantsIter::new
DevTreeDescendantsIter_new(iter) == FilterIter("MinDepth", FALSE, iter, iter.depth + 1)
\* faulty variant: deeper items are let through as well
DevTreeChildrenIter_new_min_depth(iter) == FilterIter("MinDepth", FALSE, iter, iter.depth + 1)

\* DevTreeChildrenIter::new
DevTreeChildrenIter_new(iter) == FilterIter("Depth", FALSE, iter, iter.depth + 1)

\* faulty variant: nothing is skipped before the min-depth rule applies
DevTreeSiblingsAndDescendantsIter_new_no_skip(iter) ==
    FilterIter("MinDepth", FALSE, iter, iter.depth)

\* DevTreeSiblingsAndDescendantsIter::new
DevTreeSiblingsAndDescendantsIter_new(iter) == FilterIter("MinDepth", TRUE, iter, iter.depth)

\* faulty variant: the later siblings' descendants are let through as well
DevTreeSiblingsIter_new_min_depth(iter) == FilterIter("MinDepth", TRUE, iter, iter.depth)

\* DevTreeSiblingsIter::new
DevTreeSiblingsIter_new(iter) == FilterIter("Depth", TRUE, iter, iter.depth)

\* next() of these iterators: DevTreeSkipCurrentIter::next when there is
\* one (its loop until done, the inner iterator's next() afterwards)
FilterIter_next(b, f, dbg) ==
    IF f.skip THEN SkipCurrent_loop(f.kind, b, f.iter, f.target, f.ended, dbg)
    ELSE Inner_next(f.kind, b, f.iter, f.target, f.ended, dbg)

\* faulty variant: the skipping iterator is never done
FilterIter_after_never_done(f, x) == [f EXCEPT !.iter = x.r.iter, !.ended = x.ended]

\* the iterator f after its next() returned x
FilterIter_after(f, x) ==
    [f EXCEPT !.iter = x.r.iter, !.ended = x.ended,
              !.skip = f.skip /\ x.r.res # "Node"]

-----------------------------------------------------------------------------
(* The index: index/tree.rs, index/iters.rs.  The index buffer is a         *)
(* sequence of records; a pointer is a position in it, 0 the null pointer.  *)
(* Sizes are those of a 64-bit target.                                      *)

\* size_of::<DTINode>(), size_of::<DTIProp>(), align_of::<DTINode>()
SIZE_DTINode == 48
SIZE_DTIProp == 24
ALIGN_DTINode == 8

Rec(tag, parent, name, nameoff, pstart, plen) ==
    [tag |-> tag, parent |-> parent, first_child |-> 0, next |-> 0, name |-> name,
     num_props |-> 0, nameoff |-> nameoff, pstart |-> pstart, plen |-> plen]

\* DTINode { parent, first_child: null, next: null, name, num_props: 0 }
DTINode(parent, name) == Rec("node", parent, name, 0, 0, 0)

\* DTIProp::from(&ParsedProp)
DTIProp(t) == Rec("prop", 0, << >>, t.nameoff, t.pstart, t.plen)

\* the buffer given to DevTreeIndex::new: its start address modulo the
\* alignment of the records, and its length in bytes
IndexBuf(addr, len) == [addr |-> addr, len |-> len]

\* DTIBuilder and the records written so far; res is "Ok" or the error
Builder(res, cur_node, prev_new_node, front_off, in_node_header, ibuf, mem) ==
    [res |-> res, cur_node |-> cur_node, prev_new_node |-> prev_new_node,
     front_off |-> front_off, in_node_header |-> in_node_header, buf |-> ibuf,
     mem |-> mem]

Failed(B, e) == [B EXCEPT !.res = e]

\* faulty variant: a whole alignment unit is always skipped
aligned_offset_skips_unit(B) == B.front_off + ALIGN_DTINode

\* aligned_ptr_in: offset + ptr.align_offset(align_of::<T>()) for the
\* pointer buf.as_ptr().add(offset)
aligned_offset(B) ==
    B.front_off
      + ((ALIGN_DTINode - ((B.buf.addr + B.front_off) % ALIGN_DTINode)) % ALIGN_DTINode)

\* faulty variant: the room is not checked
allocate_aligned_ptr_unchecked(B, size) == TRUE

\* aligned_ptr_in / allocate_aligned_ptr: does the buffer hold size bytes
\* from the aligned offset on (NotEnoughMemory otherwise)
allocate_aligned_ptr(B, size) == aligned_offset(B) + size <= B.buf.len

\* DTINode::first_child
first_child(A, n) == A[n].first_child

\* DTINode::next_dfs
next_dfs(A, n) == IF first_child(A, n) # 0 THEN first_child(A, n) ELSE A[n].next

\* DTINode::next_sibling
DTINode_next_sibling(A, n) ==
    IF A[n].next # 0 /\ A[A[n].next].parent = A[n].parent THEN A[n].next ELSE 0

\* DTIBuilder::parsed_node
parsed_node(B, name) ==
    IF ~allocate_aligned_ptr(B, SIZE_DTINode) THEN Failed(B, "NotEnoughMemory")
    ELSE LET new_ptr == Len(B.mem) + 1
             parent == B.cur_node
             m0 == Append(B.mem, DTINode(parent, name))
             m1 == [m0 EXCEPT ![B.prev_new_node].next = new_ptr]
             m2 == IF m1[parent].next # 0
                   THEN [m1 EXCEPT ![m1[parent].next].next = new_ptr]
                   ELSE m1
             m3 == [m2 EXCEPT ![parent].next = new_ptr]
             m4 == IF m3[parent].first_child = 0
                   THEN [m3 EXCEPT ![parent].first_child = new_ptr]
                   ELSE m3
         IN  Builder("Ok", new_ptr, new_ptr, aligned_offset(B) + SIZE_DTINode, TRUE,
                     B.buf, IF parent # 0 THEN m4 ELSE m0)

\* faulty variant: a property is recorded whether or not a node header is open
parsed_prop_any_time(B, t) ==
    IF ~allocate_aligned_ptr(B, SIZE_DTIProp) THEN Failed(B, "NotEnoughMemory")
    ELSE [B EXCEPT !.front_off = aligned_offset(B) + SIZE_DTIProp,
                   !.mem = Append(IF B.cur_node = 0 THEN B.mem
                                  ELSE [B.mem EXCEPT ![B.cur_node].num_props = @ + 1],
                                  DTIProp(t))]

\* DTIBuilder::parsed_prop
parsed_prop(B, t) ==
    IF ~B.in_node_header THEN Failed(B, "ParseError")
    ELSE IF ~allocate_aligned_ptr(B, SIZE_DTIProp) THEN Failed(B, "NotEnoughMemory")
    ELSE [B EXCEPT !.front_off = aligned_offset(B) + SIZE_DTIProp,
                   !.mem = Append([B.mem EXCEPT ![B.cur_node].num_props = @ + 1],
                                  DTIProp(t))]

\* faulty variant: an EndNode with no node open is passed over
parsed_end_node_ignores_null(B) ==
    IF B.cur_node = 0 THEN [B EXCEPT !.in_node_header = FALSE]
    ELSE [B EXCEPT !.cur_node = B.mem[B.cur_node].parent, !.in_node_header = FALSE]

\* DTIBuilder::parsed_end_node
parsed_end_node(B) ==
    IF B.cur_node = 0 THEN Failed(B, "ParseError")
    ELSE [B EXCEPT !.cur_node = B.mem[B.cur_node].parent, !.in_node_header = FALSE]

\* what init_builder returns: the builder and the parse iterator's offset
Built(B, off) == [b |-> B, off |-> off]

\* DTIBuilder { front_off: 0, buf, cur_node: null, prev_new_node: null, .. }
NewBuilder(ibuf) == Builder("Ok", 0, 0, 0, FALSE, ibuf, << >>)

RECURSIVE init_builder(_, _, _, _)

\* the match of init_builder on the token t
InitMatch(b, ibuf, dbg, t) ==
    CASE t.kind = "BeginNode" -> Built(parsed_node(NewBuilder(ibuf), t.name), t.off)
      [] t.kind = "Nop" -> init_builder(b, t.off, ibuf, dbg)
      [] t.kind = "Panic" -> Built(Failed(NewBuilder(ibuf), "Panic"), t.off)
      [] OTHER -> Built(Failed(NewBuilder(ibuf), "ParseError"), t.off)

\* DevTreeIndex::init_builder: skip Nop tokens up to the root's BeginNode
init_builder(b, off, ibuf, dbg) == InitMatch(b, ibuf, dbg, next_devtree_token(b, off, dbg))

\* faulty variant: a Nop token closes the node header
TokenBuilt_nop_closes_header(B, t) ==
    CASE t.kind = "BeginNode" -> parsed_node(B, t.name)
      [] t.kind = "Prop" -> parsed_prop(B, t)
      [] t.kind = "EndNode" -> parsed_end_node(B)
      [] t.kind = "Nop" -> [B EXCEPT !.in_node_header = FALSE]
      [] t.kind = "None" -> B
      [] t.kind = "Panic" -> Failed(B, "Panic")
      [] OTHER -> Failed(B, "ParseError")

\* the match of DevTreeIndex::new on the token t: the builder after it
TokenBuilt(B, t) ==
    CASE t.kind = "BeginNode" -> parsed_node(B, t.name)
      [] t.kind = "Prop" -> parsed_prop(B, t)
      [] t.kind = "EndNode" -> parsed_end_node(B)
      [] t.kind = "Nop" -> B
      [] t.kind = "None" -> B
      [] t.kind = "Panic" -> Failed(B, "Panic")
      [] OTHER -> Failed(B, "ParseError")

RECURSIVE index_loop(_, _, _, _)

\* the loop ends with the End token or the first error
LoopOrEnd(b, dbg, t, B) ==
    IF B.res # "Ok" \/ t.kind = "None" THEN B ELSE index_loop(b, t.off, B, dbg)

LoopMatch(b, dbg, B, t) == LoopOrEnd(b, dbg, t, TokenBuilt(B, t))

\* the token loop of DevTreeIndex::new
index_loop(b, off, B, dbg) == LoopMatch(b, dbg, B, next_devtree_token(b, off, dbg))

\* size += size, when the rest of the run succeeds
AddSize(size, rest) == IF rest.ok THEN Ok(size + rest.val) ELSE rest

RECURSIVE get_layout(_, _, _)

\* the match of get_layout on the result r of iter.next()
LayoutMatch(b, dbg, r) ==
    CASE r.res = "Node" -> AddSize(SIZE_DTINode, get_layout(b, r.iter, dbg))
      [] r.res = "Prop" -> AddSize(SIZE_DTIProp, get_layout(b, r.iter, dbg))
      [] r.res = "None" -> Ok(0)
      [] OTHER -> Err(IF r.res = "Err" THEN "ParseError" ELSE r.res)

\* DevTreeIndex::get_layout: the size of the records of all nodes and
\* properties, from the iterator i on
get_layout(b, i, dbg) == LayoutMatch(b, dbg, next_item(b, i, dbg))

\* the index that DevTreeIndex::new returns: root is the node init_builder made
Index(B, root) == [res |-> B.res, root |-> IF B.res = "Ok" THEN root ELSE 0, mem |-> B.mem]

\* DevTreeIndex::new after init_builder
NewFrom(b, dbg, init) ==
    IF init.b.res # "Ok" THEN Index(init.b, 0)
    ELSE Index(index_loop(b, init.off, init.b, dbg), init.b.cur_node)

\* DevTreeIndex::new(fdt, buf) with the buffer ibuf
DevTreeIndex_new(b, ibuf, dbg) ==
    NewFrom(b, dbg, init_builder(b, off_dt_struct(b).val, ibuf, dbg))

\* DevTreeIndexIter: node (0 for None), prop_idx, initial_node_returned
IxIter(node, prop_idx, initial_node_returned) ==
    [node |-> node, prop_idx |-> prop_idx,
     initial_node_returned |-> initial_node_returned]

\* DevTreeIndexIter::from_node_include
from_node_include(node) == IxIter(node, 0, FALSE)

\* DevTreeIndexIter::from_node
from_node(node) == IxIter(node, 0, TRUE)

\* what a step of the index iterator returns: res is "Node", "Prop" or "None",
\* iter the iterator after the call, at the record yielded
IxStep(res, iter, at) == [res |-> res, iter |-> iter, at |-> at]

\* DevTreeIndexIter::next_devtree_item
next_devtree_item(A, i) ==
    IF i.node = 0 THEN IxStep("None", i, 0)
    ELSE IF ~i.initial_node_returned
         THEN IxStep("Node", IxIter(i.node, i.prop_idx, TRUE), i.node)
    ELSE IF i.prop_idx < A[i.node].num_props
         THEN IxStep("Prop", IxIter(i.node, i.prop_idx + 1, TRUE),
                     i.node + 1 + i.prop_idx)
    ELSE LET n == next_dfs(A, i.node)
         IN  IxStep(IF n = 0 THEN "None" ELSE "Node", IxIter(n, 0, TRUE), n)

\* the result of an iterator method that yields node or property `at`
\* (0 for none); res "Diverge" is a call that never returns
IxNone(i) == IxStep("None", i, 0)

RECURSIVE DevTreeIndexIter_next_node(_, _)

\* the match of next_node on the result r of next()
IxNodeMatch(A, r) ==
    IF r.res = "Prop" THEN DevTreeIndexIter_next_node(A, r.iter) ELSE r

\* DevTreeIndexIter::next_node: loops over next() until a node or the end
DevTreeIndexIter_next_node(A, i) == IxNodeMatch(A, next_devtree_item(A, i))

RECURSIVE IxPropLoop(_, _, _)

\* the match of next_prop on the result r of next(), `seen` the iterator
\* states the loop has been in
IxPropMatch(A, seen, r) ==
    IF r.res = "Node"
    THEN IF r.iter \in seen THEN IxStep("Diverge", r.iter, 0)
         ELSE IxPropLoop(A, r.iter, seen \cup {r.iter})
    ELSE r

IxPropLoop(A, i, seen) == IxPropMatch(A, seen, next_devtree_item(A, i))

\* DevTreeIndexIter::next_prop: loops over next() until a property or the end
DevTreeIndexIter_next_prop(A, i) == IxPropLoop(A, i, {i})

\* DevTreeIndexIter::next_node_prop: the next item when it is a property
DevTreeIndexIter_next_node_prop(A, i) ==
    IxStep(IF next_devtree_item(A, i).res = "Prop" THEN "Prop" ELSE "None",
           next_devtree_item(A, i).iter,
           IF next_devtree_item(A, i).res = "Prop" THEN next_devtree_item(A, i).at ELSE 0)

\* DevTreeIndexIter::next_sibling: the current node, the iterator moving on
\* to DTINode::next_sibling of it
DevTreeIndexIter_next_sibling(A, i) ==
    IF i.node = 0 THEN IxNone(i)
    ELSE IxStep("Node",
                IxIter(DTINode_next_sibling(A, i.node), i.prop_idx, i.initial_node_returned),
                i.node)

\* DevTreeIndexIter::new_dead_iter
new_dead_iter == IxIter(0, 0, FALSE)

RECURSIVE iter_str(_, _, _)

\* the match of the candidates loop on the string s read at offset
CandidateMatch(pb, offset, string, s) ==
    IF ~s.ok THEN "Err"
    ELSE IF s.val = string THEN "Found"
    ELSE iter_str(pb, offset + Len(s.val) + 1, string)

\* the walk of prop.iter_str() by next_compatible_node from offset on: the
\* NUL-separated strings of the value up to its end, stopped at the first
\* one equal to string ("Found"), at an unterminated or invalid one ("Err"),
\* or at the end of the value ("NotFound")
iter_str(pb, offset, string) ==
    IF offset >= Len(pb) THEN "NotFound"
    ELSE CandidateMatch(pb, offset, string, get_string(pb, offset))

RECURSIVE IxCompatibleLoop(_, _, _, _, _)

\* the property p yielded by next_prop(): its name, then its candidates
IxCompatibleProp(A, b, string, seen, p, name) ==
    IF ~name.ok THEN IxNone(p.iter)
    ELSE IF name.val # CompatibleName THEN IxCompatibleLoop(A, b, p.iter, string, seen)
    ELSE IF iter_str(propbuf(b, A[p.at].pstart, A[p.at].plen), 0, string) = "Found"
         THEN IxStep("Node", p.iter, p.iter.node)
    ELSE IF iter_str(propbuf(b, A[p.at].pstart, A[p.at].plen), 0, string) = "Err"
         THEN IxNone(p.iter)
    ELSE IxCompatibleLoop(A, b, p.iter, string, seen)

\* the match of the while-let on the result p of next_prop()
IxCompatibleMatch(A, b, string, seen, p) ==
    IF p.res # "Prop" THEN p
    ELSE IF p.iter \in seen THEN IxStep("Diverge", p.iter, 0)
    ELSE IxCompatibleProp(A, b, string, seen \cup {p.iter}, p,
                          get_prop_str(b, A[p.at].nameoff))

\* the loop of next_compatible_node over the remaining properties
IxCompatibleLoop(A, b, i, string, seen) ==
    IxCompatibleMatch(A, b, string, seen, DevTreeIndexIter_next_prop(A, i))

\* the closure of next_compatible_node: Option::and_then runs it only after
\* next_node() returned a node
IxAndThen(A, b, string, n) ==
    IF n.res # "Node" THEN n ELSE IxCompatibleLoop(A, b, n.iter, string, {})

\* DevTreeIndexIter::next_compatible_node
DevTreeIndexIter_next_compatible_node(A, b, i, string) ==
    IxAndThen(A, b, string, DevTreeIndexIter_next_node(A, i))

\* a whole run of an iterator over the index: the records yielded and how
\* the run ended; a run that has yielded more items than the index has
\* records is cut short as "More"
IxCollected(at, rest) == [ats |-> <<at>> \o rest.ats, end |-> rest.end]

RECURSIVE IxCollect(_, _, _, _, _, _)

IxCollectMatch(what, A, b, string, left, r) ==
    IF r.res \notin {"Node", "Prop"} THEN [ats |-> << >>, end |-> r.res]
    ELSE IF left = 0 THEN [ats |-> << >>, end |-> "More"]
    ELSE IxCollected(r.at, IxCollect(what, A, b, r.iter, string, left - 1))

\* DevTreeIndexCompatibleNodeIter ("compatible"), DevTreeIndexNodeSiblingIter
\* ("siblings"), DevTreeIndexIter ("items") and DevTreeIndexNodePropIter
\* ("props"): Iterator::next
IxCollect(what, A, b, i, string, left) ==
    IxCollectMatch(what, A, b, string, left,
                   CASE what = "compatible" ->
                          DevTreeIndexIter_next_compatible_node(A, b, i, string)
                     [] what = "siblings" -> DevTreeIndexIter_next_sibling(A, i)
                     [] what = "items" -> next_devtree_item(A, i)
                     [] OTHER -> DevTreeIndexIter_next_node_prop(A, i))

\* DevTreeIndexNode::parent (0 for None)
DevTreeIndexNode_parent(A, n) == A[n].parent

\* DevTreeIndexNode::children: the sibling iterator from the first child on
DevTreeIndexNode_children(A, n) ==
    IF first_child(A, n) # 0 THEN from_node_include(first_child(A, n))
    ELSE new_dead_iter

\* DevTreeIndexNode::siblings: the sibling iterator made from_node(self)
DevTreeIndexNode_siblings(n) == from_node(n)

\* PartialEq for DevTreeIndexNode: the same record of the same index
DevTreeIndexNode_eq(n, other) == n = other

\* DevTreeIndexNode::is_parent_of
is_parent_of(A, n, other) ==
    IF DevTreeIndexNode_parent(A, other) # 0
    THEN DevTreeIndexNode_eq(DevTreeIndexNode_parent(A, other), n)
    ELSE FALSE

\* DevTreeIndexNode::is_sibling_of
is_sibling_of(A, n, other) ==
    DevTreeIndexNode_eq(DevTreeIndexNode_parent(A, other), DevTreeIndexNode_parent(A, n))

\* DevTreeIndexProp::node of the property that next() returned as r: the
\* node the iterator was on
DevTreeIndexProp_node(r) == r.iter.node

\* a whole run of items() over the index with node() taken of every
\* property: the property records yielded, the node records node() returned
IxOwnersFound(at, node, rest) ==
    [ats |-> <<at>> \o rest.ats, nodes |-> <<node>> \o rest.nodes, end |-> rest.end]

RECURSIVE IxPropNodes(_, _, _)

IxPropNodesMatch(A, left, r) ==
    IF r.res \notin {"Node", "Prop"} THEN [ats |-> << >>, nodes |-> << >>, end |-> r.res]
    ELSE IF left = 0 THEN [ats |-> << >>, nodes |-> << >>, end |-> "More"]
    ELSE IF r.res = "Node" THEN IxPropNodes(A, r.iter, left - 1)
    ELSE IxOwnersFound(r.at, DevTreeIndexProp_node(r), IxPropNodes(A, r.iter, left - 1))

IxPropNodes(A, i, left) == IxPropNodesMatch(A, left, next_devtree_item(A, i))

-----------------------------------------------------------------------------
(* The blobs the model is run on.  A tree of n nodes is given by the depth  *)
(* of each node in document order (d[1] = 0, d[i] <= d[i-1] + 1); node i is *)
(* named by one letter (the root by the empty name) and carries one of the  *)
(* property lists of PropChoices.  The blob is laid out as dtc lays it out: *)
(* header, memory reservation block, structure block, strings block.        *)

RegName == <<114, 101, 103>>                                        \* "reg"
StringsBlock == Pad4(CompatibleName \o <<0>> \o RegName \o <<0>>)
NAMEOFF_compatible == Len(<< >>)
NAMEOFF_reg == Len(CompatibleName) + 1

StrX == <<120>>     \* "x"
StrY == <<121>>     \* "y"
StrZ == <<122>>     \* "z"
SearchStrings == {StrX, StrY, StrZ}

PropCx == [nameoff |-> NAMEOFF_compatible, val |-> StrX \o <<0>>]
PropCyx == [nameoff |-> NAMEOFF_compatible, val |-> StrY \o <<0>> \o StrX \o <<0>>]
PropReg == [nameoff |-> NAMEOFF_reg, val |-> <<0, 0, 0, 1>>]
PropChoices == << << >>, <<PropCx>>, <<PropReg, PropCyx>> >>

Plans == 0 .. (Len(PropChoices) * Len(PropChoices) - 1)

DepthSeqs(n) ==
    { d \in [1..n -> 0..(n - 1)] :
        /\ d[1] = 0
        /\ \A i \in 2..n : d[i] >= 1 /\ d[i] <= d[i - 1] + 1 }

Gens ==
    UNION { { [n |-> n, d |-> d, plan |-> k, nops |-> np] :
                d \in DepthSeqs(n), k \in Plans, np \in BOOLEAN } : n \in 1..MaxNodes }

NoGen == [n |-> 0, d |-> << >>, plan |-> 0, nops |-> FALSE]

NodeName(i) == IF i = 1 THEN << >> ELSE <<96 + i>>

PropsOf(g, i) ==
    PropChoices[1 + (IF i % 2 = 1 THEN g.plan % Len(PropChoices)
                     ELSE (g.plan \div Len(PropChoices)) % Len(PropChoices))]

EncBeginNode(name) == BE32(TOK_BEGIN_NODE) \o Pad4(name \o <<0>>)
EncProp(p) == BE32(TOK_PROP) \o BE32(Len(p.val)) \o BE32(p.nameoff) \o Pad4(p.val)

RECURSIVE EncProps(_)
EncProps(ps) == IF ps = << >> THEN << >> ELSE EncProp(Head(ps)) \o EncProps(Tail(ps))

RECURSIVE EncEndNodes(_)
EncEndNodes(k) == IF k <= 0 THEN << >> ELSE BE32(TOK_END_NODE) \o EncEndNodes(k - 1)

EncNop(g) == IF g.nops THEN BE32(TOK_NOP) ELSE << >>

RECURSIVE EncNodes(_, _)
EncNodes(g, i) ==
    IF i > g.n THEN EncEndNodes(g.d[g.n] + 1) \o EncNop(g) \o BE32(TOK_END)
    ELSE (IF i = 1 THEN << >> ELSE EncEndNodes(g.d[i - 1] - g.d[i] + 1))
         \o EncNop(g) \o EncBeginNode(NodeName(i)) \o EncNop(g)
         \o EncProps(PropsOf(g, i)) \o EncNodes(g, i + 1)

StructBlock(g) == EncNodes(g, 1)

HEADER_SIZE == 40
RSVMAP_SIZE == 16

MkHeader(magic, total, offStruct, offStrings, offRsv, szStrings, szStruct) ==
    BE32(magic) \o BE32(total) \o BE32(offStruct) \o BE32(offStrings) \o BE32(offRsv)
    \o BE32(17) \o BE32(16) \o BE32(0) \o BE32(szStrings) \o BE32(szStruct)

MkBlob(g) ==
    LET st == StructBlock(g)
        offStruct == HEADER_SIZE + RSVMAP_SIZE
        offStrings == offStruct + Len(st)
        total == offStrings + Len(StringsBlock)
    IN  MkHeader(FDT_MAGIC, total, offStruct, offStrings, HEADER_SIZE,
                 Len(StringsBlock), Len(st))
        \o Zeros(RSVMAP_SIZE) \o st \o StringsBlock

\* Header-only buffers: the first len bytes of a header whose magic, totalsize
\* and offsets are right or wrong.
HdrBufs ==
    { SubSeq(MkHeader(FDT_MAGIC + dm, len + dt, HEADER_SIZE + RSVMAP_SIZE + ds,
                      HEADER_SIZE + RSVMAP_SIZE + 16, HEADER_SIZE + dr, 0, 16)
             \o Zeros(MaxHdrLen), 1, len) :
        len \in 0..MaxHdrLen, dm \in {0, 1}, dt \in {0 - 4, 0, 4}, ds \in {0, 2}, dr \in {0, 1} }

-----------------------------------------------------------------------------
(* Opening a buffer *)

NoIter == [offset |-> 0, depth |-> 0 - 1, ppo |-> 0]
NoQuery == [op |-> "None", arg |-> << >>, res |-> "None", val |-> 0]
NoSearch == [op |-> "None", arg |-> << >>, res |-> "None", names |-> << >>]
NoBuilder == [state |-> "None", root |-> 0, cap |-> 0, addr |-> 0]
NoIxIter == [node |-> 0, prop_idx |-> 0, initial_node_returned |-> FALSE]

NoRsvGen == [ents |-> << >>, place |-> "none", slack |-> 0]
NoRsv == [state |-> "NotCalled", offset |-> 0, out |-> << >>]
NoTokGen == [kind |-> "None", n |-> 0, shape |-> "none", at |-> 0]
NoTok == TokNoPayload("NotCalled", 0)
NoPropQuery == [op |-> "None", arg |-> << >>, res |-> "None", val |-> << >>, list |-> << >>]

\* no build has been started
NoDtb == [state |-> "None", B |-> NewBuilder(IndexBuf(0, 0)), off |-> 0, ptrs |-> << >>]

InitRest ==
    /\ openRes = "NotCalled"
    /\ hdrQ = NoQuery
    /\ it = NoIter
    /\ itRes = "Start"
    /\ out = << >>
    /\ q = NoSearch
    /\ bld = NoBuilder
    /\ arena = << >>
    /\ ix = NoIxIter
    /\ ixRes = "Start"
    /\ ixOut = << >>
    /\ rsv = NoRsv
    /\ pval = << >>
    /\ pq = NoPropQuery
    /\ tokGen = NoTokGen
    /\ tok = NoTok
    /\ dtb = NoDtb

InitOpen ==
    /\ \/ buf \in HdrBufs /\ gen = NoGen
       \/ \E g \in Gens : gen = g /\ buf = MkBlob(g)
    /\ toks = << >>
    /\ rsvGen = NoRsvGen
    /\ bufAddr \in 0..2
    /\ debug = FALSE
    /\ InitRest

\* DevTree::new(buf)
Open ==
    /\ openRes = "NotCalled"
    /\ openRes' = DevTree_new(buf, bufAddr)
    /\ UNCHANGED <<buf, bufAddr, debug, hdrQ, it, itRes, out, q, bld, arena, ix, ixRes, ixOut, gen, toks, rsvGen, rsv, pval, pq, tokGen, tok, dtb>>

\* DevTree::read_totalsize(buf)
ReadTotalsize ==
    /\ hdrQ.op # "read_totalsize"
    /\ LET r == read_totalsize(buf, bufAddr)
       IN  hdrQ' = [op |-> "read_totalsize", arg |-> << >>,
                    res |-> IF r.ok THEN "Ok" ELSE r.err, val |-> r.val]
    /\ UNCHANGED <<buf, bufAddr, debug, openRes, it, itRes, out, q, bld, arena, ix, ixRes, ixOut, gen, toks, rsvGen, rsv, pval, pq, tokGen, tok, dtb>>

\* DevTree::totalsize(&self) on the handle DevTree::new returned
Totalsize ==
    /\ openRes = "Ok"
    /\ hdrQ.op # "totalsize"
    /\ LET r == totalsize(buf)
       IN  hdrQ' = [op |-> "totalsize", arg |-> << >>,
                    res |-> IF r.ok THEN "Ok" ELSE "Panic", val |-> r.val]
    /\ UNCHANGED <<buf, bufAddr, debug, openRes, it, itRes, out, q, bld, arena, ix, ixRes, ixOut, gen, toks, rsvGen, rsv, pval, pq, tokGen, tok, dtb>>

NextOpen == Open \/ ReadTotalsize \/ Totalsize

SpecOpen == InitOpen /\ [][NextOpen]_vars

-----------------------------------------------------------------------------
(* Streaming a well-formed blob: DevTree::items(), and the searches that    *)
(* start from the node the iterator has just yielded.                       *)

\* what the client records of an item
NodeItem(name) == [kind |-> "Node", name |-> name]
PropItem(b, r) == [kind |-> "Prop", name |-> get_prop_str(b, r.nameoff).val]

\* the answer of a search: its result and the names of the nodes it yielded
Answer(op, arg, r) ==
    [op |-> op, arg |-> arg, res |-> r.res,
     names |-> IF r.res = "Node" THEN <<r.name>> ELSE << >>]

\* the answer of a whole run c of an iterator
RunAnswer(op, arg, c) == [op |-> op, arg |-> arg, res |-> c.end, names |-> c.names]

\* a whole run of DevTree::nodes() ("nodes"), DevTree::props() ("props") or
\* DevTree::compatible_nodes(s) (s): the names yielded and how the run ended
Collected(name, rest) == [names |-> <<name>> \o rest.names, end |-> rest.end]

RECURSIVE Collect(_, _, _, _)

CollectMatch(what, b, dbg, r) ==
    CASE r.res = "Node" -> Collected(r.name, Collect(what, b, r.iter, dbg))
      [] r.res = "Prop" ->
           Collected(get_prop_str(b, r.nameoff).val, Collect(what, b, r.iter, dbg))
      [] OTHER -> [names |-> << >>, end |-> r.res]

Collect(what, b, i, dbg) ==
    CollectMatch(what, b, dbg,
                 CASE what = "nodes" -> next_node(b, i, dbg)
                   [] what = "props" -> next_prop(b, i, dbg)
                   [] OTHER -> next_compatible_node(b, i, what, dbg))

\* the items recorded, r being what next() returned
Recorded(items, b, r) ==
    CASE r.res = "Node" -> Append(items, NodeItem(r.name))
      [] r.res = "Prop" -> Append(items, PropItem(b, r))
      [] OTHER -> items

\* a whole run of one of the iterators over part of the tree: the items
\* yielded and how the run ended
CollectedItem(items, rest) == [names |-> items \o rest.names, end |-> rest.end]

RECURSIVE CollectFilter(_, _, _)

CollectFilterMatch(b, f, dbg, x) ==
    IF x.r.res \in {"Node", "Prop"}
    THEN CollectedItem(Recorded(<< >>, b, x.r),
                       CollectFilter(b, FilterIter_after(f, x), dbg))
    ELSE [names |-> << >>, end |-> x.r.res]

CollectFilter(b, f, dbg) == CollectFilterMatch(b, f, dbg, FilterIter_next(b, f, dbg))

\* the k-th node of the blob as a run of DevTree::nodes() from i yields it
RECURSIVE NthNode(_, _, _, _)
NthNode(b, i, k, dbg) ==
    IF k <= 1 THEN next_node(b, i, dbg)
    ELSE NthNode(b, next_node(b, i, dbg).iter, k - 1, dbg)

\* a whole run of DevTreeNode::props(), i being the node's parse_iter: the
\* names of the properties yielded and the offsets of their values
PropsFound(name, start, rest) ==
    [names |-> <<name>> \o rest.names, starts |-> <<start>> \o rest.starts,
     end |-> rest.end]

RECURSIVE DevTreeNodePropIter_run(_, _, _)

NodePropMatch(b, dbg, r) ==
    IF r.res = "Prop"
    THEN PropsFound(get_prop_str(b, r.nameoff).val, r.pstart,
                    DevTreeNodePropIter_run(b, r.iter, dbg))
    ELSE [names |-> << >>, starts |-> << >>, end |-> r.res]

DevTreeNodePropIter_run(b, i, dbg) == NodePropMatch(b, dbg, next_node_prop(b, i, dbg))

\* the name of the node that DevTreeProp::node unwrapped; <<0>> stands for
\* the unwrapping of a result that holds no node
UnwrappedName(n) == IF n.res = "Node" THEN n.name ELSE <<0>>

\* a whole run of DevTree::items() with node() taken of every property: the
\* names of the nodes returned
RECURSIVE PropNodes(_, _, _)

PropNodesMatch(b, dbg, r) ==
    CASE r.res = "Prop" ->
           Collected(UnwrappedName(DevTreeProp_node(b, r.hiter, dbg)),
                     PropNodes(b, r.iter, dbg))
      [] r.res = "Node" -> PropNodes(b, r.iter, dbg)
      [] OTHER -> [names |-> << >>, end |-> r.res]

PropNodes(b, i, dbg) == PropNodesMatch(b, dbg, next_item(b, i, dbg))

InitStream ==
    /\ \E g \in Gens : gen = g /\ buf = MkBlob(g)
    /\ toks = << >>
    /\ rsvGen = NoRsvGen
    /\ bufAddr = 0
    /\ debug \in BOOLEAN
    /\ InitRest

\* DevTree::items()
Items ==
    /\ openRes = "Ok"
    /\ itRes = "Start"
    /\ it' = DevTreeIter_new(buf)
    /\ itRes' = "Ready"
    /\ UNCHANGED <<buf, bufAddr, debug, openRes, hdrQ, out, q, bld, arena, ix, ixRes, ixOut, gen, toks, rsvGen, rsv, pval, pq, tokGen, tok, dtb>>

\* DevTreeIter::next() on the items() iterator; it may be called again after
\* the end or an error was reported
NextItem ==
    /\ itRes \notin {"Start", "Panic"}
    /\ LET r == next_item(buf, it, debug)
       IN  /\ it' = r.iter
           /\ itRes' = r.res
           /\ out' = Recorded(out, buf, r)
    /\ q' = NoSearch
    /\ UNCHANGED <<buf, bufAddr, debug, openRes, hdrQ, bld, arena, ix, ixRes, ixOut, gen, toks, rsvGen, rsv, pval, pq, tokGen, tok, dtb>>

\* DevTreeNode::next_sibling on the node just yielded
NextSibling ==
    /\ itRes = "Node"
    /\ q = NoSearch
    /\ q' = Answer("next_sibling", << >>, next_sibling(buf, it, debug))
    /\ UNCHANGED <<buf, bufAddr, debug, openRes, hdrQ, it, itRes, out, bld, arena, ix, ixRes, ixOut, gen, toks, rsvGen, rsv, pval, pq, tokGen, tok, dtb>>

\* the first next() of DevTreeNode::siblings_and_descendants on that node
SiblingsAndDescendants ==
    /\ itRes = "Node"
    /\ q = NoSearch
    /\ q' = Answer("siblings_and_descendants", << >>,
                   siblings_and_descendants_first(buf, it, debug).r)
    /\ UNCHANGED <<buf, bufAddr, debug, openRes, hdrQ, it, itRes, out, bld, arena, ix, ixRes, ixOut, gen, toks, rsvGen, rsv, pval, pq, tokGen, tok, dtb>>

\* DevTreeNode::find_next_compatible_node(s) on that node
FindNextCompatible ==
    /\ itRes = "Node"
    /\ q = NoSearch
    /\ \E s \in SearchStrings :
          q' = Answer("find_next_compatible_node", s,
                      find_next_compatible_node(buf, it, s, debug))
    /\ UNCHANGED <<buf, bufAddr, debug, openRes, hdrQ, it, itRes, out, bld, arena, ix, ixRes, ixOut, gen, toks, rsvGen, rsv, pval, pq, tokGen, tok, dtb>>

\* DevTree::compatible_nodes(s), run until it stops yielding nodes
CompatibleNodes ==
    /\ itRes = "Ready"
    /\ q = NoSearch
    /\ \E s \in SearchStrings :
          q' = RunAnswer("compatible_nodes", s, Collect(s, buf, DevTreeIter_new(buf), debug))
    /\ UNCHANGED <<buf, bufAddr, debug, openRes, hdrQ, it, itRes, out, bld, arena, ix, ixRes, ixOut, gen, toks, rsvGen, rsv, pval, pq, tokGen, tok, dtb>>

\* a whole run of DevTreeNode::descendants on the node just yielded
Descendants ==
    /\ itRes = "Node"
    /\ q = NoSearch
    /\ q' = RunAnswer("descendants", << >>,
                      CollectFilter(buf, DevTreeDescendantsIter_new(it), debug))
    /\ UNCHANGED <<buf, bufAddr, debug, openRes, hdrQ, it, itRes, out, bld, arena, ix, ixRes, ixOut, gen, toks, rsvGen, rsv, pval, pq, tokGen, tok, dtb>>

\* a whole run of DevTreeNode::children on the node just yielded
Children ==
    /\ itRes = "Node"
    /\ q = NoSearch
    /\ q' = RunAnswer("children", << >>,
                      CollectFilter(buf, DevTreeChildrenIter_new(it), debug))
    /\ UNCHANGED <<buf, bufAddr, debug, openRes, hdrQ, it, itRes, out, bld, arena, ix, ixRes, ixOut, gen, toks, rsvGen, rsv, pval, pq, tokGen, tok, dtb>>

\* a whole run of DevTreeNode::siblings on the node just yielded
Siblings ==
    /\ itRes = "Node"
    /\ q = NoSearch
    /\ q' = RunAnswer("siblings", << >>,
                      CollectFilter(buf, DevTreeSiblingsIter_new(it), debug))
    /\ UNCHANGED <<buf, bufAddr, debug, openRes, hdrQ, it, itRes, out, bld, arena, ix, ixRes, ixOut, gen, toks, rsvGen, rsv, pval, pq, tokGen, tok, dtb>>

\* a whole run of DevTreeNode::siblings_and_descendants on the node just yielded
SiblingsAndDescendantsAll ==
    /\ itRes = "Node"
    /\ q = NoSearch
    /\ q' = RunAnswer("siblings_and_descendants_all", << >>,
                      CollectFilter(buf, DevTreeSiblingsAndDescendantsIter_new(it), debug))
    /\ UNCHANGED <<buf, bufAddr, debug, openRes, hdrQ, it, itRes, out, bld, arena, ix, ixRes, ixOut, gen, toks, rsvGen, rsv, pval, pq, tokGen, tok, dtb>>

NextStream ==
    \/ Open
    \/ Items
    \/ NextItem
    \/ NextSibling
    \/ SiblingsAndDescendants
    \/ FindNextCompatible
    \/ CompatibleNodes
    \/ Descendants
    \/ Children
    \/ Siblings
    \/ SiblingsAndDescendantsAll

SpecStream == InitStream /\ [][NextStream]_vars

-----------------------------------------------------------------------------
(* Claims about streaming (SpecStream).  What a well-formed blob holds is   *)
(* read off the tree it was laid out from (gen).                            *)

PropName(p) == IF p.nameoff = NAMEOFF_compatible THEN CompatibleName ELSE RegName

RECURSIVE ExpPropItems(_)
ExpPropItems(ps) ==
    IF ps = << >> THEN << >>
    ELSE <<[kind |-> "Prop", name |-> PropName(Head(ps))]>> \o ExpPropItems(Tail(ps))

\* the BeginNode and Prop tokens of the structure block, in the order they appear
RECURSIVE ExpItemsFrom(_, _)
ExpItemsFrom(g, i) ==
    IF i > g.n THEN << >>
    ELSE <<[kind |-> "Node", name |-> NodeName(i)]>> \o ExpPropItems(PropsOf(g, i))
         \o ExpItemsFrom(g, i + 1)

ExpItems(g) == ExpItemsFrom(g, 1)

IsNodeItem(x) == x.kind = "Node"
IsPropItem(x) == x.kind = "Prop"

NamesOf(items) == [k \in 1..Len(items) |-> items[k].name]

IsPrefix(a, c) == Len(a) <= Len(c) /\ SubSeq(c, 1, Len(a)) = a

\* the index (in document order) of the node the items() iterator yielded last
CurNode == Len(SelectSeq(out, IsNodeItem))

\* the strings of a NUL-separated string list
RECURSIVE SplitNul(_)
SplitNul(bs) ==
    IF bs = << >> THEN << >>
    ELSE LET k == CHOOSE k \in 1..(Len(bs) + 1) :
                     /\ (k <= Len(bs) => bs[k] = 0)
                     /\ \A m \in 1..(k - 1) : bs[m] # 0
         IN  <<SubSeq(bs, 1, k - 1)>> \o SplitNul(SubSeq(bs, k + 1, Len(bs)))

\* node i has a "compatible" property whose string list contains s
IsCompatible(g, i, s) ==
    \E k \in 1..Len(PropsOf(g, i)) :
        LET p == PropsOf(g, i)[k]
        IN  /\ p.nameoff = NAMEOFF_compatible
            /\ \E m \in 1..Len(SplitNul(p.val)) : SplitNul(p.val)[m] = s

\* 0 for "no such node"
FirstOf(S) == IF S = {} THEN 0 ELSE CHOOSE j \in S : \A k \in S : j <= k

ExpNextSibling(g, i) ==
    FirstOf({ j \in (i + 1)..g.n :
                /\ g.d[j] = g.d[i]
                /\ \A k \in (i + 1)..(j - 1) : g.d[k] > g.d[i] })

ExpNextCompatible(g, i, s) ==
    FirstOf({ j \in (i + 1)..g.n : IsCompatible(g, j, s) })

RECURSIVE ExpCompatibleFrom(_, _, _)
ExpCompatibleFrom(g, i, s) ==
    IF i > g.n THEN << >>
    ELSE (IF IsCompatible(g, i, s) THEN <<NodeName(i)>> ELSE << >>)
         \o ExpCompatibleFrom(g, i + 1, s)

\* the last node of the run of nodes after i that are deeper than depth
LastDeeper(g, i, depth) ==
    CHOOSE j \in i..g.n :
        /\ \A k \in (i + 1)..j : g.d[k] > depth
        /\ j < g.n => g.d[j + 1] <= depth

\* the items of the nodes j..last that are at depth `depth` (at any depth
\* when depth = -1), each node followed by its properties
RECURSIVE ExpSel(_, _, _, _)
ExpSel(g, j, last, depth) ==
    IF j > last THEN << >>
    ELSE (IF depth = 0 - 1 \/ g.d[j] = depth
          THEN <<NodeItem(NodeName(j))>> \o ExpPropItems(PropsOf(g, j))
          ELSE << >>)
         \o ExpSel(g, j + 1, last, depth)

\* the items of the subtree of node i without i and its properties
ExpDescendants(g, i) == ExpSel(g, i + 1, LastDeeper(g, i, g.d[i]), 0 - 1)

\* the children of node i, each followed by its properties
ExpChildren(g, i) == ExpSel(g, i + 1, LastDeeper(g, i, g.d[i]), g.d[i] + 1)

\* the later siblings of node i, each followed by its properties
ExpSiblings(g, i) == ExpSel(g, i + 1, LastDeeper(g, i, g.d[i] - 1), g.d[i])

\* the later siblings of node i with their properties and subtrees
ExpSiblingsAndDescendants(g, i) ==
    ExpSel(g, ExpNextSibling(g, i), LastDeeper(g, i, g.d[i] - 1), 0 - 1)

\* a is c with some items left out
RECURSIVE IsSubSeq(_, _)
IsSubSeq(a, c) ==
    IF a = << >> THEN TRUE
    ELSE IF c = << >> THEN FALSE
    ELSE IF Head(a) = Head(c) THEN IsSubSeq(Tail(a), Tail(c))
    ELSE IsSubSeq(a, Tail(c))

\* C3: over a well-formed blob, the items yielded so far are the first
\* BeginNode and Prop tokens of the structure block in their order; when the
\* end is reported every token has been yielded once, and a whole run of
\* nodes() yields one node per BeginNode token and a whole run of props() one
\* property per Prop token, in token order, each ending with None.
C3_StreamingDocumentOrder ==
    /\ IsPrefix(out, ExpItems(gen))
    /\ itRes = "None" =>
          /\ out = ExpItems(gen)
          /\ Collect("nodes", buf, DevTreeIter_new(buf), debug)
               = [names |-> NamesOf(SelectSeq(ExpItems(gen), IsNodeItem)), end |-> "None"]
          /\ Collect("props", buf, DevTreeIter_new(buf), debug)
               = [names |-> NamesOf(SelectSeq(ExpItems(gen), IsPropItem)), end |-> "None"]

\* the end of a tree of several nodes with properties and Nop tokens is reached
C3_Witness ==
    /\ itRes = "None"
    /\ gen.n >= 3 /\ gen.nops
    /\ Len(SelectSeq(out, IsPropItem)) >= 3
    /\ Len(SelectSeq(out, IsNodeItem)) = gen.n

\* C8 (as claimed): next_sibling and the first step of siblings_and_descendants
\* on a node return the next later sibling when there is one and None when the
\* node is the last child of its parent.
C8_NextSiblingReturns ==
    q.op \in {"next_sibling", "siblings_and_descendants"} =>
        LET j == ExpNextSibling(gen, CurNode)
        IN  IF j = 0 THEN q.res = "None"
            ELSE q.res = "Node" /\ q.names = <<NodeName(j)>>

\* C9 (as claimed): compatible_nodes(s) yields, in document order, the nodes
\* whose "compatible" string list contains s at any position.
C9_CompatibleNodesFullList ==
    q.op = "compatible_nodes" => q.names = ExpCompatibleFrom(gen, 1, q.arg)

\* C10 (as claimed): find_next_compatible_node(n, s) returns the first node
\* after n that is compatible with s, and None when there is none.
C10_FindNextCompatible ==
    q.op = "find_next_compatible_node" =>
        LET j == ExpNextCompatible(gen, CurNode, q.arg)
        IN  IF j = 0 THEN q.res = "None"
            ELSE q.res = "Node" /\ q.names = <<NodeName(j)>>

\* C12: a whole run of descendants(n) yields the nodes strictly inside n's
\* subtree with their properties in document order and none of n's own
\* properties, then ends; every item of children(n) occurs in it, in order.
C12_DescendantsSubtree ==
    q.op = "descendants" =>
        /\ q.res = "None"
        /\ q.names = ExpDescendants(gen, CurNode)
        /\ IsSubSeq(CollectFilter(buf, DevTreeChildrenIter_new(it), debug).names, q.names)

\* descendants of a node that has properties of its own and a child with
\* properties, and is followed by a node outside its subtree
C12_Witness ==
    /\ q.op = "descendants"
    /\ CurNode >= 1 /\ CurNode + 2 <= gen.n
    /\ PropsOf(gen, CurNode) # << >>
    /\ gen.d[CurNode + 1] = gen.d[CurNode] + 1
    /\ gen.d[CurNode + 2] <= gen.d[CurNode]
    /\ Len(q.names) >= 2

\* C13: a whole run of children(n) yields the direct children of n, each
\* followed by its own properties, in document order: no property of n and
\* no grandchild; then it ends.
C13_ChildrenDirect ==
    q.op = "children" =>
        /\ q.res = "None"
        /\ q.names = ExpChildren(gen, CurNode)

\* children of a node that has properties of its own, a child and a grandchild
C13_Witness ==
    /\ q.op = "children"
    /\ CurNode >= 1 /\ CurNode + 2 <= gen.n
    /\ PropsOf(gen, CurNode) # << >>
    /\ gen.d[CurNode + 1] = gen.d[CurNode] + 1
    /\ gen.d[CurNode + 2] = gen.d[CurNode] + 2
    /\ Len(q.names) >= 2

\* C14: on a node n with a later sibling, a whole run of siblings(n) yields
\* the later siblings of n, each followed by its own properties, in document
\* order: not n, no property of n, no descendant of n or of a sibling; then
\* it ends.
C14_SiblingsLater ==
    (q.op = "siblings" /\ ExpNextSibling(gen, CurNode) # 0) =>
        /\ q.res = "None"
        /\ q.names = ExpSiblings(gen, CurNode)

\* siblings of a node that has properties, a child and a later sibling with
\* properties
C14_Witness ==
    /\ q.op = "siblings"
    /\ CurNode >= 2 /\ CurNode + 2 <= gen.n
    /\ PropsOf(gen, CurNode) # << >>
    /\ gen.d[CurNode + 1] = gen.d[CurNode] + 1
    /\ gen.d[CurNode + 2] = gen.d[CurNode]
    /\ Len(q.names) >= 2

NodeNamesOf(items) == NamesOf(SelectSeq(items, IsNodeItem))

-----------------------------------------------------------------------------
(* Building the index of a well-formed blob and iterating it                *)

\* the longest run of items recorded: longer than any tree's
MaxOut == 3 * MaxNodes + 1

InitIndex == InitStream

\* the bytes of a buffer in which an aligned block of the layout's size fits
\* wherever the buffer starts; -1 when get_layout failed
BufferFor(layout) == IF layout.ok THEN layout.val + ALIGN_DTINode ELSE 0 - 1

\* DevTreeIndex::new returned r for an aligned buffer of cap bytes
IndexBuilt(cap, r) ==
    /\ bld' = [state |-> r.res, root |-> r.root, cap |-> cap, addr |-> 0]
    /\ arena' = r.mem

\* the item of the index at record rec
IxItem(b, rec) == IF rec.tag = "node" THEN NodeItem(rec.name) ELSE PropItem(b, rec)

\* DevTreeIndex::new(fdt, buf), buf a buffer of the size and alignment that
\* DevTreeIndex::get_layout(fdt) asks for
IndexNew ==
    /\ openRes = "Ok"
    /\ bld.state = "None"
    /\ \E cap \in {BufferFor(get_layout(buf, DevTreeIter_new(buf), debug))} :
          /\ cap >= 0
          /\ IndexBuilt(cap, DevTreeIndex_new(buf, IndexBuf(0, cap), debug))
    /\ UNCHANGED <<buf, bufAddr, debug, openRes, hdrQ, it, itRes, out, q, ix, ixRes, ixOut, gen, toks, rsvGen, rsv, pval, pq, tokGen, tok, dtb>>

\* DevTreeIndex::items()
IndexItems ==
    /\ bld.state = "Ok"
    /\ ixRes = "Start"
    /\ ix' = from_node_include(bld.root)
    /\ ixRes' = "Ready"
    /\ UNCHANGED <<buf, bufAddr, debug, openRes, hdrQ, it, itRes, out, q, bld, arena, ixOut, gen, toks, rsvGen, rsv, pval, pq, tokGen, tok, dtb>>

\* DevTreeIndexIter::next() on the items() iterator
IndexNext ==
    /\ ixRes # "Start"
    /\ Len(ixOut) < MaxOut
    /\ LET r == next_devtree_item(arena, ix)
       IN  /\ ix' = r.iter
           /\ ixRes' = r.res
           /\ ixOut' = IF r.res = "None" THEN ixOut
                       ELSE Append(ixOut, IxItem(buf, arena[r.at]))
    /\ UNCHANGED <<buf, bufAddr, debug, openRes, hdrQ, it, itRes, out, q, bld, arena, gen, toks, rsvGen, rsv, pval, pq, tokGen, tok, dtb>>

\* the index is built and the run of items() is over (the index does not
\* change, so a query's place among the calls of next() does not matter)
IndexIdle ==
    /\ bld.state = "Ok"
    /\ q.op = "None"
    /\ (ixRes = "None" \/ Len(ixOut) = MaxOut)

\* the names of the records of a run c, and how it ended
IxRunAnswer(op, arg, b, A, c) ==
    [op |-> op, arg |-> arg, res |-> c.end,
     names |-> [k \in 1..Len(c.ats) |-> IxItem(b, A[c.ats[k]]).name]]

\* a whole run of DevTreeIndex::compatible_nodes(s)
IndexCompatibleNodes ==
    /\ IndexIdle
    /\ \E s \in SearchStrings :
          q' = IxRunAnswer("compatible_nodes", s, buf, arena,
                           IxCollect("compatible", arena, buf,
                                     from_node_include(bld.root), s, Len(arena) + 1))
    /\ UNCHANGED <<buf, bufAddr, debug, openRes, hdrQ, it, itRes, out, bld, arena, ix, ixRes, ixOut, gen, toks, rsvGen, rsv, pval, pq, tokGen, tok, dtb>>

\* DevTreeProp::node of every property of a whole run of DevTree::items()
StreamPropNodes ==
    /\ IndexIdle
    /\ q' = RunAnswer("prop_nodes", << >>, PropNodes(buf, DevTreeIter_new(buf), debug))
    /\ UNCHANGED <<buf, bufAddr, debug, openRes, hdrQ, it, itRes, out, bld, arena, ix, ixRes, ixOut, gen, toks, rsvGen, rsv, pval, pq, tokGen, tok, dtb>>

\* the property records (arg) and the names of the nodes (names) of a run c
\* of IxPropNodes
IxOwnersAnswer(op, A, c) ==
    [op |-> op, arg |-> c.ats, res |-> c.end,
     names |-> [k \in 1..Len(c.nodes) |-> A[c.nodes[k]].name]]

\* DevTreeIndexProp::node of every property of a run of DevTreeIndex::items()
IndexPropNodes ==
    /\ IndexIdle
    /\ q' = IxOwnersAnswer("index_prop_nodes", arena,
                           IxPropNodes(arena, from_node_include(bld.root), MaxOut))
    /\ UNCHANGED <<buf, bufAddr, debug, openRes, hdrQ, it, itRes, out, bld, arena, ix, ixRes, ixOut, gen, toks, rsvGen, rsv, pval, pq, tokGen, tok, dtb>>

\* the record of the k-th node of the index
NodeRecord(A, k) ==
    CHOOSE p \in 1..Len(A) :
        A[p].tag = "node" /\ Cardinality({r \in 1..p : A[r].tag = "node"}) = k

\* a whole run of DevTreeNode::props() on the k-th node of the blob; arg is
\* k followed by the offsets of the values of the properties yielded
StreamNodeProps ==
    /\ IndexIdle
    /\ \E k \in 1..gen.n :
          \E c \in {DevTreeNodePropIter_run(
                       buf, NthNode(buf, DevTreeIter_new(buf), k, debug).iter, debug)} :
              q' = [op |-> "props", arg |-> <<k>> \o c.starts, res |-> c.end,
                    names |-> c.names]
    /\ UNCHANGED <<buf, bufAddr, debug, openRes, hdrQ, it, itRes, out, bld, arena, ix, ixRes, ixOut, gen, toks, rsvGen, rsv, pval, pq, tokGen, tok, dtb>>

\* a whole run of DevTreeIndexNode::props() on the k-th node of the index;
\* arg is k followed by the records of the properties yielded
IndexNodeProps ==
    /\ IndexIdle
    /\ \E k \in 1..gen.n :
          \E c \in {IxCollect("props", arena, buf, from_node(NodeRecord(arena, k)),
                               << >>, Len(arena) + 1)} :
              q' = [IxRunAnswer("index_props", <<k>>, buf, arena, c)
                      EXCEPT !.arg = <<k>> \o c.ats]
    /\ UNCHANGED <<buf, bufAddr, debug, openRes, hdrQ, it, itRes, out, bld, arena, ix, ixRes, ixOut, gen, toks, rsvGen, rsv, pval, pq, tokGen, tok, dtb>>

\* a whole run of DevTreeIndexNode::children() on the k-th node of the
\* index; arg is k followed by the records of the nodes yielded
IndexChildren ==
    /\ IndexIdle
    /\ \E k \in 1..gen.n :
          \E c \in {IxCollect("siblings", arena, buf,
                               DevTreeIndexNode_children(arena, NodeRecord(arena, k)),
                               << >>, Len(arena) + 1)} :
              q' = [IxRunAnswer("index_children", <<k>>, buf, arena, c)
                      EXCEPT !.arg = <<k>> \o c.ats]
    /\ UNCHANGED <<buf, bufAddr, debug, openRes, hdrQ, it, itRes, out, bld, arena, ix, ixRes, ixOut, gen, toks, rsvGen, rsv, pval, pq, tokGen, tok, dtb>>

\* a whole run of DevTreeIndexNode::siblings() on the k-th node of the
\* index; arg is k followed by the records of the nodes yielded
IndexSiblings ==
    /\ IndexIdle
    /\ \E k \in 1..gen.n :
          \E c \in {IxCollect("siblings", arena, buf,
                               DevTreeIndexNode_siblings(NodeRecord(arena, k)),
                               << >>, Len(arena) + 1)} :
              q' = [IxRunAnswer("index_siblings", <<k>>, buf, arena, c)
                      EXCEPT !.arg = <<k>> \o c.ats]
    /\ UNCHANGED <<buf, bufAddr, debug, openRes, hdrQ, it, itRes, out, bld, arena, ix, ixRes, ixOut, gen, toks, rsvGen, rsv, pval, pq, tokGen, tok, dtb>>

NextIndex ==
    \/ Open
    \/ IndexNew
    \/ IndexItems
    \/ IndexNext
    \/ IndexCompatibleNodes
    \/ StreamPropNodes
    \/ IndexPropNodes
    \/ StreamNodeProps
    \/ IndexNodeProps
    \/ IndexChildren
    \/ IndexSiblings

SpecIndex == InitIndex /\ [][NextIndex]_vars

-----------------------------------------------------------------------------
(* Building the index in buffers of any size and alignment (SpecBuild) *)

InitBuild == InitStream

\* the layout that DevTreeIndex::get_layout reports for buf
Layout == get_layout(buf, DevTreeIter_new(buf), debug)

\* a buffer that holds the records of any structure block of the model
AmpleLen == SIZE_DTINode * (4 * MaxNodes + 4)

\* the buffers the index is built in: every alignment of the start, and
\* lengths around the layout's size
IndexLens(layout) ==
    {AmpleLen} \cup
    (IF layout.ok
     THEN {0, layout.val - SIZE_DTIProp, layout.val - 1, layout.val,
           layout.val + ALIGN_DTINode - 1, layout.val + ALIGN_DTINode} \cap Nat
     ELSE {})

IndexBufs(layout) ==
    { IndexBuf(addr, len) : addr \in 0..(ALIGN_DTINode - 1), len \in IndexLens(layout) }

\* DevTreeIndex::new returned r for the buffer ibuf
IndexBuiltIn(ibuf, r) ==
    /\ bld' = [state |-> r.res, root |-> r.root, cap |-> ibuf.len, addr |-> ibuf.addr]
    /\ arena' = r.mem

\* DevTreeIndex::new(fdt, buf), buf any buffer
IndexNewIn ==
    /\ openRes = "Ok"
    /\ bld.state = "None"
    /\ \E ibuf \in IndexBufs(Layout) :
          IndexBuiltIn(ibuf, DevTreeIndex_new(buf, ibuf, debug))
    /\ UNCHANGED <<buf, bufAddr, debug, openRes, hdrQ, it, itRes, out, q, ix, ixRes, ixOut, gen, toks, rsvGen, rsv, pval, pq, tokGen, tok, dtb>>

NextBuild ==
    \/ Open
    \/ IndexNewIn

SpecBuild == InitBuild /\ [][NextBuild]_vars

\* the size of the records of the nodes and properties of a tree
ExpLayoutSize(g) ==
    g.n * SIZE_DTINode + Len(SelectSeq(ExpItems(g), IsPropItem)) * SIZE_DTIProp

\* C21: building the index of a well-formed blob in a buffer shorter than
\* the size of its layout fails with NotEnoughMemory.
C21_ShortBufferNotEnoughMemory ==
    (bld.state # "None" /\ Layout.ok /\ bld.cap < Layout.val) =>
        bld.state = "NotEnoughMemory"

\* a build in an aligned buffer one byte short of the layout of a tree of
\* three nodes
C21_Witness ==
    /\ bld.state = "NotEnoughMemory"
    /\ gen.n >= 3
    /\ bld.addr = 0
    /\ bld.cap = Layout.val - 1

\* C22: the layout's size is that of one node record per node and one
\* property record per property, and building the index in a buffer of at
\* least size + align bytes succeeds wherever the buffer starts.
C22_AmpleBufferSucceeds ==
    /\ Layout.ok /\ Layout.val = ExpLayoutSize(gen)
    /\ (bld.state # "None" /\ bld.cap >= Layout.val + ALIGN_DTINode) =>
          /\ bld.state = "Ok"
          /\ Len(arena) = Len(ExpItems(gen))

\* a build in a buffer of exactly size + align bytes that starts three bytes
\* past an aligned address
C22_Witness ==
    /\ bld.state = "Ok"
    /\ gen.n >= 3 /\ Len(arena) > gen.n
    /\ bld.addr = 3
    /\ bld.cap = Layout.val + ALIGN_DTINode

-----------------------------------------------------------------------------
(* Claims about the index (SpecIndex) *)

\* a whole run of DevTree::items() over the blob
RECURSIVE StreamItems(_, _, _)

StreamMatch(b, dbg, r) ==
    IF r.res \in {"Node", "Prop"}
    THEN Recorded(<< >>, b, r) \o StreamItems(b, r.iter, dbg)
    ELSE << >>

StreamItems(b, i, dbg) == StreamMatch(b, dbg, next_item(b, i, dbg))

\* C1 (as claimed): the items the index's items() has yielded are the first
\* items of streaming items() over the same blob, and all of them when the
\* index iterator reports the end.
C1_IndexMatchesStreaming ==
    LET stream == StreamItems(buf, DevTreeIter_new(buf), debug)
    IN  /\ IsPrefix(ixOut, stream)
        /\ ixRes = "None" => ixOut = stream

\* C2 (as claimed): the index's items() never yields more nodes than there
\* are BeginNode tokens nor more properties than there are Prop tokens, and
\* has yielded that many of each when it reports the end.
C2_IndexVisitsEachOnce ==
    LET nodes == Len(SelectSeq(ixOut, IsNodeItem))
        props == Len(SelectSeq(ixOut, IsPropItem))
        expNodes == Len(SelectSeq(ExpItems(gen), IsNodeItem))
        expProps == Len(SelectSeq(ExpItems(gen), IsPropItem))
    IN  /\ nodes <= expNodes /\ props <= expProps
        /\ ixRes = "None" => (nodes = expNodes /\ props = expProps)

\* C11 (as claimed): a whole run of the index's compatible_nodes(s) yields,
\* in document order and each once, exactly the nodes whose "compatible"
\* string list contains s, and then ends.
C11_IndexCompatibleNodes ==
    q.op = "compatible_nodes" =>
        /\ q.res = "None"
        /\ q.names = ExpCompatibleFrom(gen, 1, q.arg)

\* the nodes that own the Prop tokens of the structure block, token by token
RECURSIVE ExpOwnersFrom(_, _)
ExpOwnersFrom(g, i) ==
    IF i > g.n THEN << >>
    ELSE [k \in 1..Len(PropsOf(g, i)) |-> i] \o ExpOwnersFrom(g, i + 1)

\* the place among the Prop tokens of the property the record at `at` is of
PropOrdinal(A, at) == Cardinality({p \in 1..at : A[p].tag = "prop"})

\* C17: for every property yielded, node() is the node that owns it: in a
\* whole streaming run the names of the nodes returned are, property by
\* property, those of the nodes whose BeginNode token most recently preceded
\* the Prop token; in a run over the index the node returned for the record
\* of the k-th Prop token has the name of the owner of that token.
C17_PropNodeIsOwner ==
    /\ q.op = "prop_nodes" =>
          /\ q.res = "None"
          /\ q.names = [k \in 1..Len(ExpOwnersFrom(gen, 1)) |->
                          NodeName(ExpOwnersFrom(gen, 1)[k])]
    /\ q.op = "index_prop_nodes" =>
          /\ Len(q.names) = Len(q.arg)
          /\ \A k \in 1..Len(q.arg) :
                q.names[k] = NodeName(ExpOwnersFrom(gen, 1)[PropOrdinal(arena, q.arg[k])])

\* node() was taken of the properties of three nodes, some with two
\* properties, in a run over the index that came to its end
C17_Witness ==
    /\ q.op = "index_prop_nodes"
    /\ q.res = "None"
    /\ gen.n >= 3 /\ gen.nops
    /\ Len(q.names) >= 4
    /\ q.names[1] # q.names[Len(q.names)]

\* the offset just after the BeginNode token of the k-th node, and the end
\* of the blob for k past the last node
NodeOffset(k) ==
    IF k > gen.n THEN Len(buf)
    ELSE NthNode(buf, DevTreeIter_new(buf), k, debug).iter.offset

\* C18: a whole run of n.props() yields exactly the properties of n, in
\* their order, and then ends.  Streaming: the names are those of n's
\* properties and every value lies between n's BeginNode token and the next
\* one.  Indexed: the names are those of n's properties and the records are
\* the ones that follow n's record.
C18_NodePropsOwn ==
    /\ q.op \in {"props", "index_props"} =>
          /\ q.res = "None"
          /\ q.names = NamesOf(ExpPropItems(PropsOf(gen, q.arg[1])))
    /\ q.op = "props" =>
          \A m \in 2..Len(q.arg) :
              /\ q.arg[m] > NodeOffset(q.arg[1])
              /\ q.arg[m] < NodeOffset(q.arg[1] + 1)
              /\ m > 2 => q.arg[m - 1] < q.arg[m]
    /\ q.op = "index_props" =>
          /\ arena[NodeRecord(arena, q.arg[1])].name = NodeName(q.arg[1])
          /\ \A m \in 2..Len(q.arg) :
                q.arg[m] = NodeRecord(arena, q.arg[1]) + m - 1

\* props() of a node with two properties that is followed by a child with
\* properties of its own, through the streaming handle
C18_Witness ==
    /\ q.op = "props"
    /\ q.arg[1] < gen.n
    /\ gen.d[q.arg[1] + 1] = gen.d[q.arg[1]] + 1
    /\ PropsOf(gen, q.arg[1] + 1) # << >>
    /\ Len(q.names) = 2
    /\ gen.nops

\* C19 (as claimed): a whole run of the index's children(n) yields the nodes
\* whose parent is n, each once, in document order, and then ends; nothing
\* when n has no child.
C19_IndexChildren ==
    q.op = "index_children" =>
        /\ q.res = "None"
        /\ q.names = NodeNamesOf(ExpChildren(gen, q.arg[1]))

\* C20 (as claimed): every c that children(n) yields has parent(c) == n and
\* n.is_parent_of(c), any two of them are siblings of each other, the ones
\* yielded at different places of the run compare unequal, and the root has
\* no parent.
C20_IndexChildrenRelations ==
    /\ bld.state = "Ok" => DevTreeIndexNode_parent(arena, bld.root) = 0
    /\ q.op = "index_children" =>
          LET n == NodeRecord(arena, q.arg[1])
              cs == Tail(q.arg)
          IN  /\ \A m \in 1..Len(cs) :
                    /\ DevTreeIndexNode_parent(arena, cs[m]) = n
                    /\ is_parent_of(arena, n, cs[m])
              /\ \A m1, m2 \in 1..Len(cs) :
                    /\ is_sibling_of(arena, cs[m1], cs[m2])
                    /\ m1 # m2 => ~DevTreeIndexNode_eq(cs[m1], cs[m2])

-----------------------------------------------------------------------------
(* Claims about opening a buffer (SpecOpen) *)

HdrMagic == read_be_u32(buf, OFF_magic)
HdrTotalsize == read_be_u32(buf, OFF_totalsize)
HdrAligned == bufAddr % 4 = 0
HdrMagicOk == HdrMagic.ok /\ HdrMagic.val = FDT_MAGIC
HdrOffsetsAligned ==
    /\ off_mem_rsvmap(buf).ok /\ off_mem_rsvmap(buf).val % 4 = 0
    /\ off_dt_struct(buf).ok /\ off_dt_struct(buf).val % 4 = 0

\* C4 (as claimed): a buffer with a complete, aligned header whose totalsize
\* field is greater than the buffer's length is rejected by DevTree::new with
\* ParseError.
C4_TruncatedBlobRejected ==
    ( /\ openRes # "NotCalled"
      /\ HdrAligned /\ HdrMagicOk
      /\ Len(buf) >= HEADER_SIZE
      /\ UsizeGt(HdrTotalsize.val, Len(buf)) )
    => openRes = "ParseError"

\* C5: for a 4-byte aligned blob with correct magic, aligned off_mem_rsvmap and
\* off_dt_struct and totalsize = len(buf), DevTree::new succeeds, the handle's
\* totalsize() is len(buf), and read_totalsize returns len(buf).
C5_OpenReportsTotalsize ==
    ( /\ HdrAligned /\ HdrMagicOk
      /\ HdrOffsetsAligned
      /\ HdrTotalsize.val = Len(buf) )
    => /\ openRes \in {"NotCalled", "Ok"}
       /\ hdrQ.op = "totalsize" => (hdrQ.res = "Ok" /\ hdrQ.val = Len(buf))
       /\ hdrQ.op = "read_totalsize" => (hdrQ.res = "Ok" /\ hdrQ.val = Len(buf))

C5_Witness ==
    /\ gen.n > 1
    /\ openRes = "Ok"
    /\ hdrQ.op = "totalsize" /\ hdrQ.res = "Ok"
    /\ hdrQ.val = Len(buf)

\* C6 (as claimed): DevTree::new on a 4-byte aligned buffer of any length and
\* contents returns a handle or an error value; it never panics.
C6_OpenNeverPanics ==
    HdrAligned => openRes # "Panic"

\* C7: DevTree::new reports the first check that fails, in the order: buffer
\* alignment (InvalidParameter), magic (InvalidMagicNumber), totalsize
\* (ParseError), alignment of off_mem_rsvmap and off_dt_struct (ParseError);
\* it returns a handle when none fails.
C7_OpenCheckOrder ==
    openRes # "NotCalled" =>
        /\ ~HdrAligned => openRes = "InvalidParameter"
        /\ (HdrAligned /\ HdrMagic.ok /\ HdrMagic.val # FDT_MAGIC)
              => openRes = "InvalidMagicNumber"
        /\ (HdrAligned /\ HdrMagicOk /\ HdrTotalsize.ok
              /\ UsizeLt(HdrTotalsize.val, Len(buf)))
              => openRes = "ParseError"
        /\ (HdrAligned /\ HdrMagicOk /\ HdrTotalsize.ok
              /\ ~UsizeLt(HdrTotalsize.val, Len(buf))
              /\ off_mem_rsvmap(buf).ok /\ off_dt_struct(buf).ok)
              => openRes = (IF HdrOffsetsAligned THEN "Ok" ELSE "ParseError")

\* a misaligned buffer that also has a wrong magic, a totalsize below its
\* length and misaligned offsets: the alignment is what is reported
C7_Witness ==
    /\ openRes = "InvalidParameter"
    /\ HdrMagic.ok /\ HdrMagic.val # FDT_MAGIC
    /\ HdrTotalsize.ok /\ UsizeLt(HdrTotalsize.val, Len(buf))
    /\ off_mem_rsvmap(buf).ok /\ off_dt_struct(buf).ok /\ ~HdrOffsetsAligned

-----------------------------------------------------------------------------
(* Structure blocks that need not follow the grammar (SpecTokens): the blob *)
(* is made from any short list of tokens, closed by the End token.          *)

MaxToks == 4

TokKinds == {"BeginNode", "EndNode", "Prop", "Nop", "Unknown"}

TokLists == UNION { [1..n -> TokKinds] : n \in 0..MaxToks }

\* the bytes of a token: nodes are named "a", properties are compatible = "x",
\* an unknown token is a word that is none of the five token codes
EncTok(k) ==
    CASE k = "BeginNode" -> EncBeginNode(<<97>>)
      [] k = "EndNode" -> BE32(TOK_END_NODE)
      [] k = "Prop" -> EncProp(PropCx)
      [] k = "Nop" -> BE32(TOK_NOP)
      [] OTHER -> BE32(TOK_NOP + 1)

RECURSIVE EncToks(_)
EncToks(ts) == IF Len(ts) = 0 THEN << >> ELSE EncTok(Head(ts)) \o EncToks(Tail(ts))

MkTokBlob(ts) ==
    LET st == EncToks(ts) \o BE32(TOK_END)
        offStruct == HEADER_SIZE + RSVMAP_SIZE
        offStrings == offStruct + Len(st)
        total == offStrings + Len(StringsBlock)
    IN  MkHeader(FDT_MAGIC, total, offStruct, offStrings, HEADER_SIZE,
                 Len(StringsBlock), Len(st))
        \o Zeros(RSVMAP_SIZE) \o st \o StringsBlock

InitTokens ==
    /\ toks \in TokLists
    /\ rsvGen = NoRsvGen
    /\ buf = MkTokBlob(toks)
    /\ gen = NoGen
    /\ bufAddr = 0
    /\ debug \in BOOLEAN
    /\ InitRest

\* DevTreeIndex::new(fdt, buf), buf a buffer with room for every record
IndexNewAmple ==
    /\ openRes = "Ok"
    /\ bld.state = "None"
    /\ IndexBuiltIn(IndexBuf(0, AmpleLen),
                    DevTreeIndex_new(buf, IndexBuf(0, AmpleLen), debug))
    /\ UNCHANGED <<buf, bufAddr, debug, openRes, hdrQ, it, itRes, out, q, ix, ixRes, ixOut, gen, toks, rsvGen, rsv, pval, pq, tokGen, tok, dtb>>

NextTokens ==
    \/ Open
    \/ Items
    \/ NextItem
    \/ IndexNewAmple

SpecTokens == InitTokens /\ [][NextTokens]_vars

\* the offset in the blob at which token k of ts ends
TokEnd(ts, k) == HEADER_SIZE + RSVMAP_SIZE + Len(EncToks(SubSeq(ts, 1, k)))

\* the token of ts that ends at offset off (0 when there is none)
TokEndingAt(ts, off) ==
    IF \E k \in 1..Len(ts) : TokEnd(ts, k) = off
    THEN CHOOSE k \in 1..Len(ts) : TokEnd(ts, k) = off
    ELSE 0

\* the number of tokens of kind kd among the first k of ts
CountToks(ts, kd, k) == Cardinality({ j \in 1..k : ts[j] = kd })

\* the nodes open after the first k tokens of ts
OpenNodes(ts, k) == CountToks(ts, "BeginNode", k) - CountToks(ts, "EndNode", k)

\* the BeginNode and EndNode tokens before token k
Brackets(ts, k) == { j \in 1..(k - 1) : ts[j] \in {"BeginNode", "EndNode"} }

\* token k is a Prop outside a node header: no BeginNode comes before it, or
\* an EndNode does with no BeginNode in between
StrayProp(ts, k) ==
    /\ k \in 1..Len(ts)
    /\ ts[k] = "Prop"
    /\ \/ CountToks(ts, "BeginNode", k) = 0
       \/ \E j \in Brackets(ts, k) :
            /\ ts[j] = "EndNode"
            /\ \A i \in Brackets(ts, k) : i <= j

StrayProps(ts) == { k \in 1..Len(ts) : StrayProp(ts, k) }

\* the Prop tokens in a node header before the first stray one
HeaderPropsBeforeStray(ts) ==
    { k \in 1..Len(ts) : /\ ts[k] = "Prop"
                         /\ ~StrayProp(ts, k)
                         /\ \A j \in StrayProps(ts) : k < j }

IsPropRec(r) == r.tag = "prop"

\* C23: a Prop token outside a node header (before any BeginNode, or after an
\* EndNode with no BeginNode in between) makes the streaming next() that reads
\* it return Err(ParseError) and the index build, in a buffer with room for
\* every record, fail with ParseError; the
\* items yielded hold no more properties than there are header properties,
\* and no property record is written for the stray token.
C23_StrayPropIsParseError ==
    /\ (itRes \notin {"Start", "Ready"} /\ StrayProp(toks, TokEndingAt(toks, it.offset)))
          => itRes = "Err"
    /\ Len(SelectSeq(out, IsPropItem))
          <= Cardinality({ k \in 1..Len(toks) : toks[k] = "Prop" /\ ~StrayProp(toks, k) })
    /\ (bld.state # "None" /\ bld.cap >= AmpleLen /\ StrayProps(toks) # {})
          => /\ bld.state = "ParseError"
             /\ Len(SelectSeq(arena, IsPropRec)) <= Cardinality(HeaderPropsBeforeStray(toks))

C23_Witness ==
    /\ toks = <<"BeginNode", "Prop", "EndNode", "Prop">>
    /\ itRes = "Err"
    /\ TokEndingAt(toks, it.offset) = 4
    /\ Len(out) = 2
    /\ bld.state = "ParseError"
    /\ Len(arena) = 2

\* the EndNode tokens that arrive when no node is open
UnbalancedEnds(ts) ==
    { k \in 1..Len(ts) : ts[k] = "EndNode" /\ OpenNodes(ts, k - 1) <= 0 }

\* C24: an EndNode token that arrives while no node is open makes the index
\* build, in a buffer with room for every record, fail with ParseError (and
\* not with a panic).
C24_UnbalancedEndNodeIsParseError ==
    (bld.state # "None" /\ bld.cap >= AmpleLen /\ UnbalancedEnds(toks) # {})
        => bld.state = "ParseError"

C24_Witness ==
    /\ toks = <<"BeginNode", "Prop", "EndNode", "EndNode">>
    /\ bld.state = "ParseError"
    /\ bld.cap = AmpleLen
    /\ Len(arena) = 2

\* ts follows the grammar of a structure block: no unknown token, one
\* top-level node, every node closed, properties only in node headers
WellFormed(ts) ==
    /\ \A k \in 1..Len(ts) : ts[k] # "Unknown"
    /\ CountToks(ts, "BeginNode", Len(ts)) > 0
    /\ OpenNodes(ts, Len(ts)) = 0
    /\ StrayProps(ts) = {}
    /\ UnbalancedEnds(ts) = {}
    /\ \A k \in 1..Len(ts) :
          ts[k] = "BeginNode"
             => (OpenNodes(ts, k - 1) > 0 \/ CountToks(ts, "BeginNode", k - 1) = 0)

\* C29: the index build returns ParseError for every token stream that
\* violates the grammar (End while a node is open, a second top-level node,
\* no BeginNode at all), and never an index.
C29_GrammarViolationIsParseError ==
    (bld.state # "None" /\ ~WellFormed(toks)) => bld.state = "ParseError"

\* C30: once next() has returned an error, the next call on the same
\* iterator yields no Node and no Prop item.
C30_NoItemAfterError ==
    [][itRes = "Err" => itRes' \notin {"Node", "Prop"}]_vars

-----------------------------------------------------------------------------
(* The memory reservation map (SpecReserve): DevTree::reserved_entries()    *)

MaxRsv == 3

\* size_of::<fdt_reserve_entry>(): address and size, 8 bytes each
SIZE_fdt_reserve_entry == 16

\* a 64-bit big-endian field holding the small value v
BE64(v) == Zeros(U32_SIZE) \o BE32(v)

RsvPairs == { <<0, 0>>, <<0, 1>>, <<1, 0>>, <<2, 3>> }

RsvGens ==
    UNION { { [ents |-> e, place |-> p, slack |-> k] :
                e \in [1..n -> RsvPairs], p \in {"front", "end", "beyond"},
                k \in {0, SIZE_fdt_reserve_entry} } : n \in 0..MaxRsv }

RECURSIVE EncRsv(_)
EncRsv(ents) ==
    IF Len(ents) = 0 THEN << >>
    ELSE BE64(Head(ents)[1]) \o BE64(Head(ents)[2]) \o EncRsv(Tail(ents))

\* the structure block of a tree that is one empty root
RootOnly == EncBeginNode(<< >>) \o BE32(TOK_END_NODE) \o BE32(TOK_END)

\* the blob with the reservation map g.ents, as it is written and without a
\* closing zero pair of its own: in front of the structure block ("front"),
\* as the last block of the buffer ("end"), or at the end with the header
\* field off_mem_rsvmap pointing past the total size ("beyond"); the header
\* states g.slack bytes more than the buffer holds
MkRsvBlob(g) ==
    LET map == EncRsv(g.ents)
        front == IF g.place = "front" THEN Len(map) ELSE 0
        offStruct == HEADER_SIZE + front
        offStrings == offStruct + Len(RootOnly)
        len == HEADER_SIZE + Len(map) + Len(RootOnly) + Len(StringsBlock)
        offRsv == CASE g.place = "front" -> HEADER_SIZE
                    [] g.place = "end" -> offStrings + Len(StringsBlock)
                    [] OTHER -> len + g.slack + U32_SIZE
    IN  MkHeader(FDT_MAGIC, len + g.slack, offStruct, offStrings, offRsv,
                 Len(StringsBlock), Len(RootOnly))
        \o (IF g.place = "front" THEN map ELSE << >>)
        \o RootOnly \o StringsBlock
        \o (IF g.place = "front" THEN << >> ELSE map)

\* DevTree::ptr_at::<T>(offset), size = size_of::<T>()
ptr_at(b, offset, size) ==
    IF offset + size > Len(b) THEN Err("InvalidOffset") ELSE Ok(offset)

\* DevTreeReserveEntryIter::new
DevTreeReserveEntryIter_new(b) == off_mem_rsvmap(b).val

\* the fdt_reserve_entry at offset: the bytes of its address and of its size
ReserveEntry(b, offset) ==
    [address |-> Slice(b, offset, offset + 8), size |-> Slice(b, offset + 8, offset + 16)]

\* ret.address == 0.into() && ret.size == 0.into()
IsZeroEntry(e) ==
    /\ \A i \in 1..Len(e.address) : e.address[i] = 0
    /\ \A i \in 1..Len(e.size) : e.size[i] = 0

RsvStep(state, offset, yielded) == [state |-> state, offset |-> offset, out |-> yielded]

\* DevTreeReserveEntryIter::read: self.fdt.ptr_at(self.offset)
DevTreeReserveEntryIter_read(b, offset) == ptr_at(b, offset, SIZE_fdt_reserve_entry)

\* DevTreeReserveEntryIter::next on the iterator r; read().unwrap() panics
\* when the entry does not lie in the buffer
DevTreeReserveEntryIter_next(b, r) ==
    IF UsizeLt(totalsize(b).val, r.offset) THEN RsvStep("None", r.offset, r.out)
    ELSE IF ~DevTreeReserveEntryIter_read(b, r.offset).ok
         THEN RsvStep("Panic", r.offset, r.out)
    ELSE IF IsZeroEntry(ReserveEntry(b, r.offset)) THEN RsvStep("None", r.offset, r.out)
    ELSE RsvStep("Some", r.offset + SIZE_fdt_reserve_entry,
                 Append(r.out, ReserveEntry(b, r.offset)))

InitReserve ==
    /\ \E g \in RsvGens : rsvGen = g /\ buf = MkRsvBlob(g)
    /\ gen = NoGen
    /\ toks = << >>
    /\ bufAddr = 0
    /\ debug \in BOOLEAN
    /\ InitRest

\* DevTree::reserved_entries()
ReservedEntries ==
    /\ openRes = "Ok"
    /\ rsv.state = "NotCalled"
    /\ rsv' = RsvStep("Ready", DevTreeReserveEntryIter_new(buf), << >>)
    /\ UNCHANGED <<buf, bufAddr, debug, openRes, hdrQ, it, itRes, out, q, bld, arena, ix, ixRes, ixOut, gen, toks, rsvGen, pval, pq, tokGen, tok, dtb>>

\* DevTreeReserveEntryIter::next(); it may be called again after the end
ReservedNext ==
    /\ rsv.state \in {"Ready", "Some", "None"}
    /\ rsv' = DevTreeReserveEntryIter_next(buf, rsv)
    /\ UNCHANGED <<buf, bufAddr, debug, openRes, hdrQ, it, itRes, out, q, bld, arena, ix, ixRes, ixOut, gen, toks, rsvGen, pval, pq, tokGen, tok, dtb>>

NextReserve ==
    \/ Open
    \/ ReservedEntries
    \/ ReservedNext

SpecReserve == InitReserve /\ [][NextReserve]_vars

\* the entries of the map up to, not including, the first zero pair
RECURSIVE UpToZeroPair(_)
UpToZeroPair(ents) ==
    IF Len(ents) = 0 \/ Head(ents) = <<0, 0>> THEN << >>
    ELSE <<[address |-> BE64(Head(ents)[1]), size |-> BE64(Head(ents)[2])]>>
         \o UpToZeroPair(Tail(ents))

HasZeroPair(ents) == \E k \in 1..Len(ents) : ents[k] = <<0, 0>>

\* C25: reserved_entries() yields the entries of the map in order up to, not
\* including, the first zero pair, and a map without a zero pair ends the
\* iteration without a panic where the buffer or the total size ends.
C25_ReservedEntries ==
    /\ rsv.state # "Panic"
    /\ (rsvGen.place \in {"front", "end"} /\ rsv.state = "None" /\ HasZeroPair(rsvGen.ents))
          => rsv.out = UpToZeroPair(rsvGen.ents)
    /\ (rsvGen.place = "end" /\ rsv.state = "None" /\ ~HasZeroPair(rsvGen.ents))
          => rsv.out = UpToZeroPair(rsvGen.ents)

-----------------------------------------------------------------------------
(* The readers of a property value (SpecProp): common/prop.rs               *)

MaxVal == 4

\* NUL, "x" and a byte that is not UTF-8
StrBytes == {0, 120, 255}

\* property values: string lists, terminated or not, and cells
PropVals ==
    UNION { [1..n -> StrBytes] : n \in 0..MaxVal }
    \cup { [i \in 1..n |-> (i * m) % 256] : n \in {7, 8, 9}, m \in {1, 85} }

\* offsets of a read: inside the value, past its end, and the last machine
\* words (a usize is held as its two's-complement bit pattern: -1 is
\* usize::MAX)
ReadOffsets == (0..6) \cup {0 - 100, 0 - 8, 0 - 5, 0 - 4, 0 - 1}

\* $off + size_of::<$type>() wraps around in usize
AddWraps(off, size) == off < 0 /\ off + size >= 0

\* what a reader returns: res is "Ok", the error, "Panic" or "Fault" (the
\* process is stopped by an access outside its memory)
PropAnswer(res, val, list) == [res |-> res, val |-> val, list |-> list]

\* the n big-endian 32-bit words at off
Words(pb, off, n) ==
    [i \in 1..n |-> Word(At(pb, off + 4 * (i - 1)), At(pb, off + 4 * (i - 1) + 1),
                         At(pb, off + 4 * (i - 1) + 2), At(pb, off + 4 * (i - 1) + 3))]

\* read_unaligned at an address outside the slice is undefined behaviour:
\* the read faults or returns whatever lies there
WildReads(n) ==
    {PropAnswer("Fault", << >>, << >>)}
    \cup { PropAnswer("Ok", [i \in 1..n |-> v], << >>) : v \in {0, 0 - 1} }

\* be_read!(buf, type, off) for a type of n 32-bit words: the addition of the
\* bounds check panics on overflow in a build with overflow checks and wraps
\* around otherwise
be_read(pb, n, off, dbg) ==
    IF AddWraps(off, U32_SIZE * n)
    THEN IF dbg THEN {PropAnswer("Panic", << >>, << >>)}
         ELSE IF off + U32_SIZE * n > Len(pb)
              THEN {PropAnswer("UnexpectedEndOfInput", << >>, << >>)}
         ELSE WildReads(n)
    ELSE IF UsizeGt(off + U32_SIZE * n, Len(pb))
         THEN {PropAnswer("UnexpectedEndOfInput", << >>, << >>)}
    ELSE {PropAnswer("Ok", Words(pb, off, n), << >>)}

\* .or(Err(DevTreeError::InvalidOffset))
OrInvalidOffset(r) ==
    IF r.res = "UnexpectedEndOfInput" THEN PropAnswer("InvalidOffset", << >>, << >>) ELSE r

\* PropReader::get_u32
get_u32(pb, offset, dbg) == { OrInvalidOffset(r) : r \in be_read(pb, 1, offset, dbg) }

\* PropReader::get_u64: the value as its high and its low word
get_u64(pb, offset, dbg) == { OrInvalidOffset(r) : r \in be_read(pb, 2, offset, dbg) }

\* PropReader::get_phandle
get_phandle(pb, offset, dbg) == { OrInvalidOffset(r) : r \in be_read(pb, 1, offset, dbg) }

\* PropTraitWrap::get_string(offset, parse): without parse the bytes are not
\* checked to be UTF-8
get_string_parse(pb, offset, parse) ==
    IF parse THEN get_string(pb, offset)
    ELSE IF read_bstring0(pb, offset).ok THEN StrOk(read_bstring0(pb, offset).val)
    ELSE StrErr("ParseError")

RECURSIVE iter_str_list_reads_first(_, _, _, _, _)

ListMatchReadsFirst(pb, cap, offset, count, list, s) ==
    IF ~s.ok THEN PropAnswer(s.err, << >>, list)
    ELSE IF cap >= 0 /\ count >= cap THEN PropAnswer("Panic", << >>, list)
    ELSE IF offset + Len(s.val) + 1 = Len(pb)
         THEN PropAnswer("Ok", <<count + 1>>,
                         IF cap >= 0 THEN Append(list, s.val) ELSE list)
    ELSE iter_str_list_reads_first(pb, cap, offset + Len(s.val) + 1, count + 1,
                                   IF cap >= 0 THEN Append(list, s.val) ELSE list)

\* faulty variant: the end of the value is looked for after a string is read
iter_str_list_reads_first(pb, cap, offset, count, list) ==
    ListMatchReadsFirst(pb, cap, offset, count, list, get_string_parse(pb, offset, cap >= 0))

RECURSIVE iter_str_list(_, _, _, _, _)

\* the body of the loop of iter_str_list on the string s read at offset:
\* (*list)[count] panics when the list is full
ListMatch(pb, cap, offset, count, list, s) ==
    IF ~s.ok THEN PropAnswer(s.err, << >>, list)
    ELSE IF cap >= 0 /\ count >= cap THEN PropAnswer("Panic", << >>, list)
    ELSE iter_str_list(pb, cap, offset + Len(s.val) + 1, count + 1,
                       IF cap >= 0 THEN Append(list, s.val) ELSE list)

\* PropTraitWrap::iter_str_list(list_opt) from offset on, count strings
\* read: cap is the length of the list, -1 for None
iter_str_list(pb, cap, offset, count, list) ==
    IF offset = Len(pb) THEN PropAnswer("Ok", <<count>>, list)
    ELSE ListMatch(pb, cap, offset, count, list, get_string_parse(pb, offset, cap >= 0))

\* PropReader::get_str_count
get_str_count(pb) == iter_str_list(pb, 0 - 1, 0, 0, << >>)

\* PropReader::get_strlist(list), list of length cap
get_strlist(pb, cap) == iter_str_list(pb, cap, 0, 0, << >>)

InitProp ==
    /\ pval \in PropVals
    /\ buf = << >>
    /\ gen = NoGen
    /\ toks = << >>
    /\ rsvGen = NoRsvGen
    /\ bufAddr = 0
    /\ debug \in BOOLEAN
    /\ openRes = "NotCalled"
    /\ hdrQ = NoQuery
    /\ it = NoIter
    /\ itRes = "Start"
    /\ out = << >>
    /\ q = NoSearch
    /\ bld = NoBuilder
    /\ arena = << >>
    /\ ix = NoIxIter
    /\ ixRes = "Start"
    /\ ixOut = << >>
    /\ rsv = NoRsv
    /\ pq = NoPropQuery
    /\ tokGen = NoTokGen
    /\ tok = NoTok
    /\ dtb = NoDtb

PropQueried(op, arg, r) ==
    /\ pq' = [op |-> op, arg |-> arg, res |-> r.res, val |-> r.val, list |-> r.list]
    /\ UNCHANGED <<buf, bufAddr, debug, openRes, hdrQ, it, itRes, out, q, bld, arena, ix, ixRes, ixOut, gen, toks, rsvGen, rsv, pval, tokGen, tok, dtb>>

GetU32 ==
    \E o \in ReadOffsets : \E r \in get_u32(pval, o, debug) : PropQueried("get_u32", <<o>>, r)

GetU64 ==
    \E o \in ReadOffsets : \E r \in get_u64(pval, o, debug) : PropQueried("get_u64", <<o>>, r)

GetPhandle ==
    \E o \in ReadOffsets : \E r \in get_phandle(pval, o, debug) :
        PropQueried("get_phandle", <<o>>, r)

GetStr ==
    PropQueried("get_str", << >>,
                PropAnswer(IF get_str(pval).ok THEN "Ok" ELSE get_str(pval).err, << >>,
                           IF get_str(pval).ok THEN <<get_str(pval).val>> ELSE << >>))

GetStrCount == PropQueried("get_str_count", << >>, get_str_count(pval))

GetStrlist ==
    \E cap \in 0..MaxVal : PropQueried("get_strlist", <<cap>>, get_strlist(pval, cap))

NextProp ==
    \/ GetU32
    \/ GetU64
    \/ GetPhandle
    \/ GetStr
    \/ GetStrCount
    \/ GetStrlist

SpecProp == InitProp /\ [][NextProp]_vars

\* the read of width bytes at offset o fits in the value (o as an unbounded
\* integer: a negative bit pattern is an offset past every value)
ReadFits(o, width) == o >= 0 /\ o + width <= Len(pval)

\* the answer is the big-endian integer of n words stored at o
IsStoredAt(o, n) ==
    /\ pq.res = "Ok"
    /\ Len(pq.val) = n
    /\ \A i \in 1..n : BE32(pq.val[i]) = Slice(pval, o + 4 * (i - 1), o + 4 * i)

\* C26: get_u32(o), get_phandle(o) and get_u64(o) return InvalidOffset when
\* the read does not fit in the value, also for offsets so large that o + 4 or
\* o + 8 overflows, and the big-endian integer stored at o otherwise; they
\* never panic.
C26_NumericReads ==
    /\ pq.op \in {"get_u32", "get_phandle"}
          => IF ReadFits(pq.arg[1], 4) THEN IsStoredAt(pq.arg[1], 1)
             ELSE pq.res = "InvalidOffset"
    /\ pq.op = "get_u64"
          => IF ReadFits(pq.arg[1], 8) THEN IsStoredAt(pq.arg[1], 2)
             ELSE pq.res = "InvalidOffset"

\* the positions of the NUL bytes of a value
Nuls(pb) == { i \in 1..Len(pb) : pb[i] = 0 }

\* the position of the k-th NUL (0 for k = 0)
KthNul(pb, k) ==
    IF k = 0 THEN 0
    ELSE CHOOSE i \in Nuls(pb) : Cardinality({ j \in Nuls(pb) : j < i }) = k - 1

\* the NUL-terminated strings of a value, in order
ExpStrings(pb) ==
    [k \in 1..Cardinality(Nuls(pb)) |-> SubSeq(pb, KthNul(pb, k - 1) + 1, KthNul(pb, k) - 1)]

NulEnded(pb) == Len(pb) = 0 \/ pb[Len(pb)] = 0

AllUtf8(strs) == \A k \in 1..Len(strs) : Utf8Valid(strs[k])

\* C27: the walk over the strings of a value (get_str_count, and get_strlist
\* with a list that has room for them) counts and yields the NUL-separated
\* strings in order and stops when its cursor is at the end of the value: a
\* zero-length value gives zero strings, a value whose last byte is not NUL
\* gives an error, and get_str on an empty value is an error.
C27_StringListWalk ==
    /\ pq.op = "get_str_count"
          => IF NulEnded(pval)
             THEN pq.res = "Ok" /\ pq.val = <<Cardinality(Nuls(pval))>>
             ELSE pq.res = "ParseError"
    /\ (pq.op = "get_strlist" /\ pq.arg[1] >= Cardinality(Nuls(pval)))
          => IF ~AllUtf8(ExpStrings(pval)) THEN pq.res = "StrError"
             ELSE IF ~NulEnded(pval) THEN pq.res = "ParseError"
             ELSE /\ pq.res = "Ok"
                  /\ pq.val = <<Cardinality(Nuls(pval))>>
                  /\ pq.list = ExpStrings(pval)
    /\ (pq.op = "get_str" /\ pval = << >>) => pq.res = "ParseError"

C27_Witness ==
    /\ pval = <<120, 0, 0, 120>>
    /\ pq.op = "get_strlist"
    /\ pq.arg = <<3>>
    /\ pq.res = "ParseError"
    /\ pq.list = <<<<120>>, << >>>>

-----------------------------------------------------------------------------
(* The links of the node records *)

\* the node the traversal goes on with after the subtree of node k: the next
\* sibling of k or of an ancestor of k (0 when the tree ends with the subtree)
ExpContinuation(g, k) ==
    IF \E j \in (k + 1)..g.n : g.d[j] <= g.d[k]
    THEN CHOOSE j \in (k + 1)..g.n :
            /\ g.d[j] <= g.d[k]
            /\ \A i \in (k + 1)..(j - 1) : g.d[i] > g.d[k]
    ELSE 0

HasLaterSibling(g, k) ==
    ExpContinuation(g, k) # 0 /\ g.d[ExpContinuation(g, k)] = g.d[k]

\* C28: after a successful build the next field of every node record is null
\* or the record of the node's continuation (its next sibling or the next
\* sibling of an ancestor), never the node itself or a descendant, and
\* next.parent == self.parent exactly when the node has a later sibling.
C28_NextIsContinuation ==
    bld.state = "Ok" =>
        \A k \in 1..gen.n :
            /\ arena[NodeRecord(arena, k)].next
                  = (IF ExpContinuation(gen, k) = 0 THEN 0
                     ELSE NodeRecord(arena, ExpContinuation(gen, k)))
            /\ (/\ arena[NodeRecord(arena, k)].next # 0
                /\ arena[arena[NodeRecord(arena, k)].next].parent
                      = arena[NodeRecord(arena, k)].parent)
                  <=> HasLaterSibling(gen, k)

-----------------------------------------------------------------------------
(* The index build taken one token at a time (SpecBuildSteps): the builder  *)
(* after init_builder and after each turn of the loop of DevTreeIndex::new, *)
(* with the pointers that allocate_aligned_ptr has handed out, as offsets   *)
(* into the index buffer.                                                   *)

\* the buffers of the stepwise build: aligned or not, ample or with room for
\* two node records and one property record
StepBufs ==
    { IndexBuf(addr, len) : addr \in {0, 3},
                            len \in {AmpleLen, 2 * SIZE_DTINode + SIZE_DTIProp} }

\* allocate_aligned_ptr: the pointer returned when the step from B to B2
\* wrote a record
Allocated(ptrs, B, B2) ==
    IF Len(B2.mem) > Len(B.mem) THEN Append(ptrs, aligned_offset(B)) ELSE ptrs

\* the build after a step that left the builder B2 and the parse offset off
Stepped(B, B2, off, ended) ==
    [state |-> IF B2.res # "Ok" THEN B2.res ELSE IF ended THEN "Done" ELSE "Building",
     B |-> B2, off |-> off, ptrs |-> Allocated(dtb.ptrs, B, B2)]

\* DevTreeIndex::new up to the end of init_builder
InitBuilderIn(ibuf, init) ==
    dtb' = Stepped(NewBuilder(ibuf), init.b, init.off, FALSE)

BuildStart ==
    /\ openRes = "Ok"
    /\ dtb.state = "None"
    /\ \E ibuf \in StepBufs :
          InitBuilderIn(ibuf, init_builder(buf, off_dt_struct(buf).val, ibuf, debug))
    /\ UNCHANGED <<buf, bufAddr, debug, openRes, hdrQ, it, itRes, out, q, bld, arena, ix, ixRes, ixOut, gen, toks, rsvGen, rsv, pval, pq, tokGen, tok>>

\* one turn of the loop of DevTreeIndex::new on the token t
TokenStepped(t) ==
    dtb' = Stepped(dtb.B, TokenBuilt(dtb.B, t), t.off, t.kind = "None")

BuildToken ==
    /\ dtb.state = "Building"
    /\ TokenStepped(next_devtree_token(buf, dtb.off, debug))
    /\ UNCHANGED <<buf, bufAddr, debug, openRes, hdrQ, it, itRes, out, q, bld, arena, ix, ixRes, ixOut, gen, toks, rsvGen, rsv, pval, pq, tokGen, tok>>

NextBuildSteps ==
    \/ Open
    \/ BuildStart
    \/ BuildToken

SpecBuildSteps == InitTokens /\ [][NextBuildSteps]_vars

\* size_of of the record r
RecSize(r) == IF r.tag = "node" THEN SIZE_DTINode ELSE SIZE_DTIProp

\* the records of B, written at ptrs, lie in the used part of the buffer
RecordsInside(B, ptrs) ==
    /\ Len(ptrs) = Len(B.mem)
    /\ \A i \in 1..Len(ptrs) :
          /\ ptrs[i] >= 0
          /\ (B.buf.addr + ptrs[i]) % ALIGN_DTINode = 0
          /\ ptrs[i] + RecSize(B.mem[i]) <= B.front_off

\* no two records share a byte
RecordsApart(B, ptrs) ==
    \A i \in 1..Len(ptrs) : \A j \in (i + 1)..Len(ptrs) :
        ptrs[i] + RecSize(B.mem[i]) <= ptrs[j]

\* prop_unchecked(k) of the node record i, for every k < num_props, is the
\* address of a property record, one of the num_props records written
\* next after the node
PropsPacked(B, ptrs) ==
    \A i \in 1..Len(ptrs) :
        B.mem[i].tag = "node" =>
            \A k \in 1..B.mem[i].num_props :
                /\ i + k <= Len(ptrs)
                /\ B.mem[i + k].tag = "prop"
                /\ ptrs[i + k] = ptrs[i] + SIZE_DTINode + (k - 1) * SIZE_DTIProp

\* C34: at every step of the index build the front offset is at most the
\* buffer length, the records written so far lie inside the buffer and do
\* not overlap, and the property records of each node are the num_props
\* records packed right after the node's record.
C34_ArenaPacked ==
    dtb.state # "None" =>
        /\ dtb.B.front_off <= dtb.B.buf.len
        /\ RecordsInside(dtb.B, dtb.ptrs)
        /\ RecordsApart(dtb.B, dtb.ptrs)
        /\ PropsPacked(dtb.B, dtb.ptrs)

\* a build under way in a misaligned buffer: the root has two properties
\* and a child has just been recorded after them
C34_Witness ==
    /\ dtb.state = "Building"
    /\ dtb.B.buf.addr = 3
    /\ Len(dtb.B.mem) = 4
    /\ dtb.B.mem[1].num_props = 2
    /\ dtb.B.mem[4].tag = "node"

-----------------------------------------------------------------------------
(* One call of the tokenizer (SpecTokenizer): the buffer holds one token    *)
(* at the cursor, whole or cut short.                                        *)

MaxName == 32
MaxPropLen == 5

\* n bytes "a"
RECURSIVE NameBytes(_)
NameBytes(n) == IF n <= 0 THEN << >> ELSE <<97>> \o NameBytes(n - 1)

\* n value bytes, none of them zero
ValueBytes(n) == [i \in 1..n |-> 16 + i]

\* the tokens: a BeginNode with a name of n bytes, "whole" (NUL, padding and
\* a following End token) or "cut" (the buffer ends with the last name
\* byte); a Prop that declares a value of n bytes (-1: 0xffffffff), "whole"
\* (value, padding, End), "exact" (the buffer ends with the value), "short"
\* (the last value byte is missing), "halfhdr" (the buffer ends in the
\* property header) or "nohdr" (it ends with the token word); the tokens
\* without payload, followed by an End token ("whole") or by nothing ("cut")
TokGens ==
    { [kind |-> "BeginNode", n |-> n, shape |-> sh, at |-> at] :
        n \in 0..MaxName, sh \in {"whole", "cut"}, at \in {0, 8} }
    \cup { [kind |-> "Prop", n |-> n, shape |-> sh, at |-> at] :
        n \in (0 - 1)..MaxPropLen, sh \in {"whole", "exact", "short", "halfhdr", "nohdr"},
        at \in {0, 8} }
    \cup { [kind |-> k, n |-> 0, shape |-> sh, at |-> at] :
        k \in {"EndNode", "Nop", "End", "Unknown"}, sh \in {"whole", "cut"}, at \in {0, 8} }

PropValue(g) ==
    CASE g.shape \in {"whole", "exact"} -> ValueBytes(g.n)
      [] g.shape = "short" -> ValueBytes(g.n - 1)
      [] OTHER -> << >>

MkTokBuf(g) ==
    Zeros(g.at)
    \o CASE g.kind = "BeginNode" ->
              BE32(TOK_BEGIN_NODE) \o NameBytes(g.n)
              \o (IF g.shape = "whole"
                  THEN Zeros(Len(Pad4(NameBytes(g.n) \o <<0>>)) - g.n) \o BE32(TOK_END) \o BE32(TOK_END)
                  ELSE << >>)
         [] g.kind = "Prop" ->
              BE32(TOK_PROP)
              \o (CASE g.shape = "nohdr" -> << >>
                    [] g.shape = "halfhdr" -> BE32(g.n)
                    [] OTHER -> BE32(g.n) \o BE32(NAMEOFF_compatible))
              \o (IF g.shape = "whole" THEN Pad4(PropValue(g)) \o BE32(TOK_END) \o BE32(TOK_END)
                  ELSE PropValue(g))
         [] OTHER ->
              BE32(CASE g.kind = "EndNode" -> TOK_END_NODE
                     [] g.kind = "Nop" -> TOK_NOP
                     [] g.kind = "End" -> TOK_END
                     [] OTHER -> TOK_NOP + 1)
              \o (IF g.shape = "whole" THEN BE32(TOK_END) \o BE32(TOK_END) ELSE << >>)

InitTokenizer ==
    /\ \E g \in TokGens : tokGen = g /\ buf = MkTokBuf(g)
    /\ tok = NoTok
    /\ dtb = NoDtb
    /\ gen = NoGen
    /\ toks = << >>
    /\ rsvGen = NoRsvGen
    /\ bufAddr = 0
    /\ debug \in BOOLEAN
    /\ openRes = "NotCalled"
    /\ hdrQ = NoQuery
    /\ it = NoIter
    /\ itRes = "Start"
    /\ out = << >>
    /\ q = NoSearch
    /\ bld = NoBuilder
    /\ arena = << >>
    /\ ix = NoIxIter
    /\ ixRes = "Start"
    /\ ixOut = << >>
    /\ rsv = NoRsv
    /\ pval = << >>
    /\ pq = NoPropQuery

\* next_devtree_token(buf, &mut off) with off at the token
Tokenize ==
    /\ tok.kind = "NotCalled"
    /\ tok' = next_devtree_token(buf, tokGen.at, debug)
    /\ UNCHANGED <<buf, bufAddr, debug, openRes, hdrQ, it, itRes, out, q, bld, arena, ix, ixRes, ixOut, gen, toks, rsvGen, rsv, pval, pq, tokGen, dtb>>

NextTokenizer == Tokenize

SpecTokenizer == InitTokenizer /\ [][NextTokenizer]_vars

\* C31: a BeginNode whose name has up to 31 non-NUL bytes followed by a NUL
\* is accepted and exactly those bytes are its name; ParseError is returned
\* only when no NUL is found within the bound or before the buffer ends.
C31_NameUpTo31Bytes ==
    (tokGen.kind = "BeginNode" /\ tok.kind \notin {"NotCalled", "Panic"})
        => IF tokGen.shape = "whole" /\ tokGen.n <= 31
           THEN tok.kind = "BeginNode" /\ tok.name = NameBytes(tokGen.n)
           ELSE tok.kind = "Err"

\* x rounded up to a multiple of 4
RoundUp4(x) == ((x + 3) \div 4) * 4

\* the bytes of the token of g when it is whole: the token word, the payload
\* and the padding
ExpTokSize(g) ==
    CASE g.kind = "BeginNode" -> 4 + RoundUp4(g.n + 1)
      [] g.kind = "Prop" -> 4 + 8 + RoundUp4(g.n)
      [] OTHER -> 4

\* the header or the value of the Prop of g extends past the buffer
PropPastBuffer(g) ==
    /\ g.kind = "Prop"
    /\ \/ g.shape \in {"nohdr", "halfhdr"}
       \/ g.n < 0
       \/ g.shape = "short" /\ g.n > 0

\* C32: when next_devtree_token returns a token, the cursor it leaves is
\* 4-byte aligned and is the offset of the next token: 4 past an EndNode or
\* Nop, 4 + name length + 1 rounded up past a BeginNode, 4 + 8 + len rounded
\* up past a Prop, whose value is the len bytes after its header; a Prop
\* whose header or value extends past the buffer gives ParseError.
C32_CursorAtNextToken ==
    /\ tok.kind \in {"BeginNode", "Prop", "EndNode", "Nop"}
          => /\ tok.kind = tokGen.kind
             /\ tok.off % 4 = 0
             /\ tok.off = tokGen.at + ExpTokSize(tokGen)
             /\ tok.kind = "Prop" => (tok.pstart = tokGen.at + 12 /\ tok.plen = tokGen.n)
    /\ (tok.kind # "NotCalled" /\ PropPastBuffer(tokGen)) => tok.kind = "Err"

\* C33 (as claimed): a whole run of the index's siblings(n) yields what the
\* streaming sibling_nodes(n) is to yield, the later siblings of n in document
\* order and not n itself, and then ends.
C33_IndexSiblings ==
    q.op = "index_siblings" =>
        /\ q.res = "None"
        /\ q.names = NodeNamesOf(ExpSiblings(gen, q.arg[1]))

-----------------------------------------------------------------------------
(* Names that are not UTF-8 (SpecBadNames): the blob of a tree in which one *)
(* node's name, or the name of a property put first into one node, is the   *)
(* byte 0xff.                                                               *)

BadName == <<255>>
BadStringsBlock == Pad4(CompatibleName \o <<0>> \o RegName \o <<0>> \o BadName \o <<0>>)
NAMEOFF_bad == Len(CompatibleName) + Len(RegName) + 2

PropBad == [nameoff |-> NAMEOFF_bad, val |-> StrX \o <<0>>]

\* which name is bad: that of node `at`, or that of a property of node `at`
BadChoices(g) ==
    { [kind |-> "node", at |-> i] : i \in 2..g.n } \cup
    { [kind |-> "prop", at |-> i] : i \in 1..g.n }

BadNodeName(bad, i) == IF bad.kind = "node" /\ bad.at = i THEN BadName ELSE NodeName(i)

BadPropsOf(g, bad, i) ==
    IF bad.kind = "prop" /\ bad.at = i THEN <<PropBad>> \o PropsOf(g, i) ELSE PropsOf(g, i)

RECURSIVE EncBadNodes(_, _, _)
EncBadNodes(g, bad, i) ==
    IF i > g.n THEN EncEndNodes(g.d[g.n] + 1) \o EncNop(g) \o BE32(TOK_END)
    ELSE (IF i = 1 THEN << >> ELSE EncEndNodes(g.d[i - 1] - g.d[i] + 1))
         \o EncNop(g) \o EncBeginNode(BadNodeName(bad, i)) \o EncNop(g)
         \o EncProps(BadPropsOf(g, bad, i)) \o EncBadNodes(g, bad, i + 1)

MkBadBlob(g, bad) ==
    LET st == EncBadNodes(g, bad, 1)
        offStruct == HEADER_SIZE + RSVMAP_SIZE
        offStrings == offStruct + Len(st)
        total == offStrings + Len(BadStringsBlock)
    IN  MkHeader(FDT_MAGIC, total, offStruct, offStrings, HEADER_SIZE,
                 Len(BadStringsBlock), Len(st))
        \o Zeros(RSVMAP_SIZE) \o st \o BadStringsBlock

InitBadNames ==
    /\ \E g \in Gens : \E bad \in BadChoices(g) : gen = g /\ buf = MkBadBlob(g, bad)
    /\ toks = << >>
    /\ rsvGen = NoRsvGen
    /\ bufAddr = 0
    /\ debug \in BOOLEAN
    /\ InitRest

\* a whole run of DevTree::items(): the items yielded and how the run ended
RECURSIVE ItemsRun(_, _, _)

ItemsRunMatch(b, dbg, r) ==
    IF r.res \in {"Node", "Prop"}
    THEN CollectedItem(Recorded(<< >>, b, r), ItemsRun(b, r.iter, dbg))
    ELSE [names |-> << >>, end |-> r.res]

ItemsRun(b, i, dbg) == ItemsRunMatch(b, dbg, next_item(b, i, dbg))

\* the items of the records of a run c over the index, and how it ended
IxItemsAnswer(op, b, A, c) ==
    [op |-> op, arg |-> << >>, res |-> c.end,
     names |-> [k \in 1..Len(c.ats) |-> IxItem(b, A[c.ats[k]])]]

\* a whole run of DevTree::items()
StreamItemsRun ==
    /\ openRes = "Ok"
    /\ q = NoSearch
    /\ q' = RunAnswer("stream_items", << >>, ItemsRun(buf, DevTreeIter_new(buf), debug))
    /\ UNCHANGED <<buf, bufAddr, debug, openRes, hdrQ, it, itRes, out, bld, arena, ix, ixRes, ixOut, gen, toks, rsvGen, rsv, pval, pq, tokGen, tok, dtb>>

\* a whole run of DevTree::compatible_nodes(s)
StreamCompatibleRun ==
    /\ openRes = "Ok"
    /\ q = NoSearch
    /\ \E s \in SearchStrings :
          q' = RunAnswer("stream_compatible_nodes", s,
                         Collect(s, buf, DevTreeIter_new(buf), debug))
    /\ UNCHANGED <<buf, bufAddr, debug, openRes, hdrQ, it, itRes, out, bld, arena, ix, ixRes, ixOut, gen, toks, rsvGen, rsv, pval, pq, tokGen, tok, dtb>>

\* a whole run of DevTreeIndex::items()
IndexItemsRun ==
    /\ bld.state = "Ok"
    /\ q = NoSearch
    /\ q' = IxItemsAnswer("index_items", buf, arena,
                          IxCollect("items", arena, buf, from_node_include(bld.root),
                                    << >>, Len(arena) + 1))
    /\ UNCHANGED <<buf, bufAddr, debug, openRes, hdrQ, it, itRes, out, bld, arena, ix, ixRes, ixOut, gen, toks, rsvGen, rsv, pval, pq, tokGen, tok, dtb>>

\* a whole run of DevTreeIndex::compatible_nodes(s)
IndexCompatibleRun ==
    /\ bld.state = "Ok"
    /\ q = NoSearch
    /\ \E s \in SearchStrings :
          q' = IxRunAnswer("index_compatible_nodes", s, buf, arena,
                           IxCollect("compatible", arena, buf,
                                     from_node_include(bld.root), s, Len(arena) + 1))
    /\ UNCHANGED <<buf, bufAddr, debug, openRes, hdrQ, it, itRes, out, bld, arena, ix, ixRes, ixOut, gen, toks, rsvGen, rsv, pval, pq, tokGen, tok, dtb>>

NextBadNames ==
    \/ Open
    \/ IndexNewAmple
    \/ StreamItemsRun
    \/ StreamCompatibleRun
    \/ IndexItemsRun
    \/ IndexCompatibleRun

SpecBadNames == InitBadNames /\ [][NextBadNames]_vars

\* the same bytes with the letter "q" in the place of every byte 0xff: the
\* blob whose names are all UTF-8
Utf8Fixed(b) == [k \in 1..Len(b) |-> IF b[k] = 255 THEN 113 ELSE b[k]]

\* the index of the blob b in an ample buffer
ArenaOf(b, dbg) == DevTreeIndex_new(b, IndexBuf(0, AmpleLen), dbg).mem

\* the names a are those of g but for the name that was fixed
SameNames(a, g) ==
    /\ Len(a) = Len(g)
    /\ \A k \in 1..Len(a) : a[k] = g[k] \/ g[k] = <<113>>

\* the items a are those of g but for the name that was fixed
SameItems(a, g) ==
    /\ Len(a) = Len(g)
    /\ \A k \in 1..Len(a) :
          a[k].kind = g[k].kind /\ (a[k].name = g[k].name \/ g[k].name = <<113>>)

\* the run c over the blob whose names are all UTF-8 ends as the query did
\* and yields the same items, or the same nodes
SameItemsRun(c) == q.res = c.end /\ SameItems(q.names, c.names)
SameNodesRun(c) == q.res = c.end /\ SameNames(q.names, c.names)

SameIxItemsRun(b, A, c) ==
    q.res = c.end /\ SameItems(q.names, [k \in 1..Len(c.ats) |-> IxItem(b, A[c.ats[k]])])
SameIxNodesRun(b, A, c) ==
    q.res = c.end /\ SameNames(q.names, [k \in 1..Len(c.ats) |-> IxItem(b, A[c.ats[k]]).name])

\* C35 (as claimed): a name that is not UTF-8 does not stop a scan.  A whole
\* run of streaming or indexed items(), and of the streaming or indexed
\* compatible_nodes(s), over a blob with such a name ends as it ends, and
\* yields the items or nodes it yields, over the same blob with the name
\* made UTF-8 (the fixed name is no property's "compatible").
C35_BadNameDoesNotStopScan ==
    /\ q.op = "stream_items" =>
          SameItemsRun(ItemsRun(Utf8Fixed(buf), DevTreeIter_new(Utf8Fixed(buf)), debug))
    /\ q.op = "index_items" =>
          SameIxItemsRun(Utf8Fixed(buf), ArenaOf(Utf8Fixed(buf), debug),
                         IxCollect("items", ArenaOf(Utf8Fixed(buf), debug), Utf8Fixed(buf),
                                   from_node_include(1), << >>, Len(arena) + 1))
    /\ q.op = "stream_compatible_nodes" =>
          SameNodesRun(Collect(q.arg, Utf8Fixed(buf), DevTreeIter_new(Utf8Fixed(buf)), debug))
    /\ q.op = "index_compatible_nodes" =>
          SameIxNodesRun(Utf8Fixed(buf), ArenaOf(Utf8Fixed(buf), debug),
                         IxCollect("compatible", ArenaOf(Utf8Fixed(buf), debug),
                                   Utf8Fixed(buf), from_node_include(1), q.arg,
                                   Len(arena) + 1))

-----------------------------------------------------------------------------
(* Nop tokens (SpecNops): the blobs of the trees, with and without Nop      *)
(* tokens around every BeginNode and before End, and the blobs made of any  *)
(* short list of tokens.                                                    *)

InitNops == InitStream \/ InitTokens

NextNops ==
    \/ Open
    \/ IndexNewAmple
    \/ StreamItemsRun

SpecNops == InitNops /\ [][NextNops]_vars

NotNop(k) == k # "Nop"

\* the structure block of buf follows the grammar and holds Nop tokens
GrammaticalWithNops ==
    IF gen.n > 0 THEN gen.nops
    ELSE WellFormed(toks) /\ \E k \in 1..Len(toks) : toks[k] = "Nop"

\* the blob of the same tokens without the Nop tokens
NopFree ==
    IF gen.n > 0 THEN MkBlob([gen EXCEPT !.nops = FALSE])
    ELSE MkTokBlob(SelectSeq(toks, NotNop))

\* the record r of the index of b without the offsets into b: its links,
\* its name or name offset and the bytes of its value
RecShape(b, r) ==
    [tag |-> r.tag, parent |-> r.parent, first_child |-> r.first_child, next |-> r.next,
     name |-> r.name, num_props |-> r.num_props, nameoff |-> r.nameoff,
     val |-> propbuf(b, r.pstart, r.plen)]

TreeOf(b, A) == [k \in 1..Len(A) |-> RecShape(b, A[k])]

\* C36: Nop tokens are inert.  Over a well-formed structure block with Nop
\* tokens, a whole run of streaming items() yields the items, and ends as,
\* the run over the same block without the Nop tokens, and the index
\* builder builds the same records with the same links.
C36_NopsAreInert ==
    GrammaticalWithNops =>
        /\ q.op = "stream_items" =>
              /\ q.res = "None"
              /\ q.names = ItemsRun(NopFree, DevTreeIter_new(NopFree), debug).names
        /\ bld.state # "None" =>
              /\ bld.state = "Ok"
              /\ TreeOf(buf, arena) = TreeOf(NopFree, ArenaOf(NopFree, debug))

\* the whole run and the index of a tree of four nodes, with properties, whose
\* blob has a Nop before and after every BeginNode
C36_Witness ==
    /\ q.op = "stream_items"
    /\ bld.state = "Ok"
    /\ gen.n = 4 /\ gen.nops
    /\ Len(q.names) > 4
    /\ Len(arena) = Len(q.names)

-----------------------------------------------------------------------------
(* After the end of the stream (SpecStream) *)

\* C37 (as claimed): once next() of the streaming items() iterator has
\* returned end-of-stream, the cursor stays where it is and every later
\* next() returns end-of-stream again.
C37_EndOfStreamIsFinal ==
    [][itRes = "None" => (itRes' = "None" /\ it'.offset = it.offset)]_vars

-----------------------------------------------------------------------------
(* The node of a streamed property (SpecOwners) *)

\* PartialEq for DevTreeNode: the parse iterators are equal (offset, depth
\* and current_prop_parent_off; the blob is the same)
DevTreeNode_eq(n, other) == n.iter = other.iter

\* a node handle: the parse iterator it holds
Handle(r) == [iter |-> r.iter]

\* a whole run of DevTree::items() with node() taken of every property: for
\* each property the handle that node() returns and the handle of the node
\* the iterator yielded last, its owner
OwnersFound(node, owner, rest) ==
    [names |-> <<[node |-> node, owner |-> owner]>> \o rest.names, end |-> rest.end]

RECURSIVE PropOwners(_, _, _, _)

PropOwnersMatch(b, dbg, owner, r) ==
    CASE r.res = "Node" -> PropOwners(b, r.iter, dbg, Handle(r))
      [] r.res = "Prop" ->
           OwnersFound(Handle(DevTreeProp_node(b, r.hiter, dbg)), owner,
                       PropOwners(b, r.iter, dbg, owner))
      [] OTHER -> [names |-> << >>, end |-> r.res]

PropOwners(b, i, dbg, owner) == PropOwnersMatch(b, dbg, owner, next_item(b, i, dbg))

\* DevTreeProp::node of every property of a whole run of DevTree::items()
StreamPropOwners ==
    /\ openRes = "Ok"
    /\ q = NoSearch
    /\ q' = RunAnswer("prop_owners", << >>,
                      PropOwners(buf, DevTreeIter_new(buf), debug,
                                 Handle(StepNoItem("None", NoIter))))
    /\ UNCHANGED <<buf, bufAddr, debug, openRes, hdrQ, it, itRes, out, bld, arena, ix, ixRes, ixOut, gen, toks, rsvGen, rsv, pval, pq, tokGen, tok, dtb>>

NextOwners ==
    \/ Open
    \/ StreamPropOwners

SpecOwners == InitStream /\ [][NextOwners]_vars

\* C38 (as claimed): for every property that streaming iteration yields,
\* the handle node() returns is equal to the handle the iterator yielded
\* for the node that owns the property.
C38_PropNodeIsOwner ==
    q.op = "prop_owners" =>
        \A k \in 1..Len(q.names) : DevTreeNode_eq(q.names[k].node, q.names[k].owner)

-----------------------------------------------------------------------------
(* get_strlist and the length of the caller's list (SpecProp) *)

\* C39 (as claimed): get_strlist(list) does not panic and fills no slot
\* past the list's end; when it succeeds the count it returns is at most the
\* list's length and equal to get_str_count(), and the first slot holds the
\* string of get_str().
C39_StrlistWithinList ==
    pq.op = "get_strlist" =>
        /\ pq.res # "Panic"
        /\ Len(pq.list) <= pq.arg[1]
        /\ pq.res = "Ok" =>
              /\ pq.val[1] <= pq.arg[1]
              /\ pq.val = get_str_count(pval).val
              /\ pq.val[1] > 0 => pq.list[1] = get_str(pval).val

=============================================================================
